---- MODULE Spec2Model ----
(***************************************************************************)
(* Model of ClashStrategic/release-config:                                 *)
(*   - update-version.js (live patch: prepare / updateFile)                *)
(*   - index.js (validateConfig and its dry-run of update-version rules)   *)
(*                                                                         *)
(* Text is a sequence of atoms.  An atom is one character ("a", "0", "$")  *)
(* or one of the brace tokens "{version}", "{datetime}", "{date}" that the *)
(* code's placeholder regexes match as a whole.  JavaScript values are     *)
(* records tagged by their type in field t.                                *)
(***************************************************************************)
EXTENDS Integers, Sequences, FiniteSets, TLC

VARIABLES fs, call

vars == <<fs, call>>

(***************************************************************************)
(* Bounds of the model.                                                    *)
(***************************************************************************)
MaxLen == 4
MaxPatterns == 2
MaxFiles == 3
MaxPlugins == 2

(***************************************************************************)
(* JavaScript values.                                                      *)
(***************************************************************************)
Undefined == [t |-> "undefined"]
Null == [t |-> "null"]
Num == [t |-> "number", s |-> <<"5">>]
Str(s) == [t |-> "string", s |-> s]
Arr(items) == [t |-> "array", items |-> items]

\* !v
Falsy(v) ==
  \/ v.t \in {"undefined", "null"}
  \/ v.t = "string" /\ v.s = <<>>
  \/ v.t = "boolean" /\ ~v.b

Truthy(v) == ~Falsy(v)

\* Array.isArray(v)
IsArray(v) == v.t = "array"

(***************************************************************************)
(* Regular expressions.  The modelled class is  pre  |  (pre).*?(suf) :    *)
(* a literal, or a literal prefix and suffix captured as groups 1 and 2    *)
(* around a lazy wildcard, with or without the global flag.                *)
(***************************************************************************)
RegExp(pre, wild, suf, groups, g) ==
  [t |-> "RegExp", pre |-> pre, wild |-> wild, suf |-> suf, groups |-> groups, g |-> g]

\* A pattern given as a string: its source either parses to a regex of the
\* class above or is not a valid regular expression.
Source(valid, pre, wild, suf, groups) ==
  [t |-> "string", s |-> <<"src">>, valid |-> valid, pre |-> pre, wild |-> wild,
   suf |-> suf, groups |-> groups]

\* s has p at index i
HasAt(s, p, i) ==
  /\ i >= 1
  /\ i + Len(p) - 1 <= Len(s)
  /\ \A k \in 1..Len(p) : s[i + k - 1] = p[k]

SetMin(S) == CHOOSE x \in S : \A y \in S : x <= y

\* Positions where the suffix of a match starting at i may begin.
SufStarts(s, re, i) ==
  IF ~HasAt(s, re.pre, i) THEN {}
  ELSE IF re.wild
       THEN {j \in (i + Len(re.pre))..(Len(s) + 1) : HasAt(s, re.suf, j)}
       ELSE {j \in {i + Len(re.pre)} : HasAt(s, re.suf, j)}

\* RegExp.prototype.exec from index `from`: the leftmost match, lazy wildcard.
Exec(s, re, from) ==
  LET At(i) == [found |-> TRUE, start |-> i,
                end |-> SetMin(SufStarts(s, re, i)) + Len(re.suf)]
      Leftmost(starts) ==
        IF starts = {} THEN [found |-> FALSE, start |-> 0, end |-> 0]
        ELSE At(SetMin(starts))
  IN Leftmost({i \in from..(Len(s) + 1) : SufStarts(s, re, i) # {}})

Digits == <<"1", "2", "3", "4", "5", "6", "7", "8", "9">>
IsDigit(a) == a = "0" \/ \E d \in 1..9 : Digits[d] = a
DigitVal(a) == IF a = "0" THEN 0 ELSE CHOOSE d \in 1..9 : Digits[d] = a

\* Captured group n of a match of re.
Group(re, n) == IF n = 1 THEN re.pre ELSE re.suf

\* GetSubstitution: expands $$, $n and $nn in a replacement string; a `$`
\* that starts no valid reference stays as it is.
RECURSIVE GetSubstitution(_, _, _)
GetSubstitution(repl, re, k) ==
  IF k > Len(repl) THEN <<>>
  ELSE IF repl[k] = "$" /\ k < Len(repl)
  THEN LET a == repl[k + 1]
       IN IF a = "$" THEN <<"$">> \o GetSubstitution(repl, re, k + 2)
          ELSE IF IsDigit(a)
          THEN LET two == k + 2 <= Len(repl) /\ IsDigit(repl[k + 2])
                   nn == IF two THEN 10 * DigitVal(a) + DigitVal(repl[k + 2]) ELSE 0
                   n == DigitVal(a)
               IN IF two /\ nn >= 1 /\ nn <= re.groups
                  THEN Group(re, nn) \o GetSubstitution(repl, re, k + 3)
                  ELSE IF n >= 1 /\ n <= re.groups
                  THEN Group(re, n) \o GetSubstitution(repl, re, k + 2)
                  ELSE <<"$">> \o GetSubstitution(repl, re, k + 1)
          ELSE <<"$">> \o GetSubstitution(repl, re, k + 1)
  ELSE <<repl[k]>> \o GetSubstitution(repl, re, k + 1)

\* String.prototype.replace(regexObj, replacementString): the first match, or
\* every match from left to right when the regex is global.
RECURSIVE ReplaceFrom(_, _, _, _)
ReplaceFrom(s, re, repl, from) ==
  LET Replaced(m) ==
        IF ~m.found THEN SubSeq(s, from, Len(s))
        ELSE SubSeq(s, from, m.start - 1) \o GetSubstitution(repl, re, 1)
             \o (IF re.g THEN ReplaceFrom(s, re, repl, m.end)
                 ELSE SubSeq(s, m.end, Len(s)))
  IN Replaced(Exec(s, re, from))

StringReplace(s, re, repl) == ReplaceFrom(s, re, repl, 1)

\* String.prototype.match(regexObj) is non-null
Matches(s, re) == Exec(s, re, 1).found

\* The literal global regexes of the placeholder substitution.
Literal(p) == RegExp(p, FALSE, <<>>, 0, TRUE)


(***************************************************************************)
(* The disk: a file per path, or none.                                     *)
(***************************************************************************)
Paths == {<<"f1">>, <<"f2">>}
NoFile == [exists |-> FALSE, data |-> <<>>]
File(c) == [exists |-> TRUE, data |-> c]

\* fs.existsSync(path.resolve(cwd, filePath))
existsSync(disk, p) == p \in DOMAIN disk /\ disk[p].exists

\* fs.writeFileSync(fullPath, content, 'utf8')
writeFileSync(disk, p, c) == [disk EXCEPT ![p] = File(c)]

(***************************************************************************)
(* Errors: the constructor's name and the message, a sequence of the       *)
(* pieces the template string is made of.                                  *)
(***************************************************************************)
Error(msg) == [name |-> "Error", message |-> msg]
TypeError == [name |-> "TypeError", message |-> <<"TypeError">>]
SyntaxError == [name |-> "SyntaxError", message |-> <<"Invalid regular expression">>]
NoError == [name |-> "none", message |-> <<>>]

Mentions(msg, phrase) == \E i \in 1..Len(msg) : msg[i] = phrase

(***************************************************************************)
(* update-version.js                                                       *)
(***************************************************************************)
IsoString == <<"T">>
UnixString == <<"9">>

\* getFormattedDatetime(format): the clock is one instant, whose ISO form is
\* IsoString and whose epoch seconds are UnixString.
getFormattedDatetime(format) ==
  IF format = Str(<<"unix">>) THEN UnixString ELSE IsoString

\* typeof regex === 'string' ? new RegExp(regex, 'g') : regex
\* (String.prototype.replace turns a non-RegExp pattern into a literal search)
ToRegexObj(regex) ==
  IF regex.t = "string"
  THEN RegExp(regex.pre, regex.wild, regex.suf, regex.groups, TRUE)
  ELSE IF regex.t = "RegExp" THEN regex
  ELSE RegExp(regex.s, FALSE, <<>>, 0, FALSE)

\* new RegExp(regex, 'g') throws
RegexThrows(regex) == regex.t = "string" /\ ~regex.valid

\* FinalReplacement with the two values swapped.
FinalReplacementSwapped(repl, version, datetime) ==
  LET r1 == StringReplace(repl, Literal(<<"{version}">>), datetime)
      r2 == StringReplace(r1, Literal(<<"{datetime}">>), version)
      r3 == StringReplace(r2, Literal(<<"$", "{version}">>), datetime)
  IN StringReplace(r3, Literal(<<"$", "{date}">>), version)

\* repl.replace(/\{version\}/g, version).replace(/\{datetime\}/g, datetime)
\*     .replace(/\$\{version\}/g, version).replace(/\$\{date\}/g, datetime)
FinalReplacement(repl, version, datetime) ==
  LET r1 == StringReplace(repl, Literal(<<"{version}">>), version)
      r2 == StringReplace(r1, Literal(<<"{datetime}">>), datetime)
      r3 == StringReplace(r2, Literal(<<"$", "{version}">>), version)
  IN StringReplace(r3, Literal(<<"$", "{date}">>), datetime)

Thrown(err, disk, log) ==
  [ok |-> FALSE, err |-> err, fs |-> disk, replacements |-> 0, log |-> log]

\* ApplyPatterns writing the file after each replacement.
RECURSIVE ApplyPatternsWriteEach(_, _, _, _, _, _, _, _)
ApplyPatternsWriteEach(pats, k, content, n, p, version, datetime, st) ==
  IF k > Len(pats)
  THEN [ok |-> TRUE, err |-> NoError, fs |-> writeFileSync(st.fs, p, content),
        replacements |-> n, log |-> Append(st.log, <<"write", p>>)]
  ELSE LET po == pats[k]
       IN IF po.t # "object" THEN Thrown(TypeError, st.fs, st.log)
          ELSE IF Falsy(po.regex) \/ Falsy(po.replacement)
          THEN Thrown(Error(<<"Pattern must include both \"regex\" and \"replacement\"",
                              " for file ", p[1]>>), st.fs, st.log)
          ELSE IF RegexThrows(po.regex) THEN Thrown(SyntaxError, st.fs, st.log)
          ELSE IF po.replacement.t # "string" THEN Thrown(TypeError, st.fs, st.log)
          ELSE LET Replaced(next) ==
                     IF next # content
                     THEN ApplyPatternsWriteEach(pats, k + 1, next, n + 1, p, version,
                            datetime, [fs |-> writeFileSync(st.fs, p, next),
                                       log |-> Append(st.log, <<"write", p>>)])
                     ELSE Thrown(Error(<<"Pattern did not match any content in ", p[1]>>),
                                 st.fs, st.log)
               IN Replaced(StringReplace(content, ToRegexObj(po.regex),
                             FinalReplacement(po.replacement.s, version, datetime)))

\* The pattern loop of updateFile from pattern k on: `content` is the text in
\* memory, n the replacements counted so far.
RECURSIVE ApplyPatterns(_, _, _, _, _, _, _, _)
ApplyPatterns(pats, k, content, n, p, version, datetime, st) ==
  IF k > Len(pats)
  THEN [ok |-> TRUE, err |-> NoError, fs |-> writeFileSync(st.fs, p, content),
        replacements |-> n, log |-> Append(st.log, <<"write", p>>)]
  ELSE LET po == pats[k]
       IN IF po.t # "object" THEN Thrown(TypeError, st.fs, st.log)
          ELSE IF Falsy(po.regex) \/ Falsy(po.replacement)
          THEN Thrown(Error(<<"Pattern must include both \"regex\" and \"replacement\"",
                              " for file ", p[1]>>), st.fs, st.log)
          ELSE IF RegexThrows(po.regex) THEN Thrown(SyntaxError, st.fs, st.log)
          ELSE IF po.replacement.t # "string" THEN Thrown(TypeError, st.fs, st.log)
          ELSE LET Replaced(next) ==
                     IF next # content
                     THEN ApplyPatterns(pats, k + 1, next, n + 1, p, version, datetime, st)
                     ELSE Thrown(Error(<<"Pattern did not match any content in ", p[1]>>),
                                 st.fs, st.log)
               IN Replaced(StringReplace(content, ToRegexObj(po.regex),
                             FinalReplacement(po.replacement.s, version, datetime)))

\* updateFile that knows the patterns array only.
updateFilePatternsOnly(fileConfig, version, datetime, st) ==
  IF fileConfig.t # "object" THEN Thrown(TypeError, st.fs, st.log)
  ELSE IF Falsy(fileConfig.path)
  THEN Thrown(Error(<<"File configuration must include \"path\"">>), st.fs, st.log)
  ELSE IF ~(Truthy(fileConfig.patterns) /\ IsArray(fileConfig.patterns))
  THEN Thrown(Error(<<"File ", "must include \"patterns\" array">>), st.fs, st.log)
  ELSE IF fileConfig.path.t # "string" THEN Thrown(TypeError, st.fs, st.log)
  ELSE IF ~existsSync(st.fs, fileConfig.path.s)
  THEN Thrown(Error(<<"File not found", ": ", fileConfig.path.s[1]>>), st.fs,
              Append(st.log, <<"exists", fileConfig.path.s>>))
  ELSE ApplyPatterns(fileConfig.patterns.items, 1, st.fs[fileConfig.path.s].data, 0,
                     fileConfig.path.s, version, datetime,
                     [fs |-> st.fs,
                      log |-> st.log \o <<<<"exists", fileConfig.path.s>>,
                                          <<"read", fileConfig.path.s>>>>])

\* updateFile(fileConfig, version, datetime, cwd, logger) on disk st.fs
updateFile(fileConfig, version, datetime, st) ==
  IF fileConfig.t # "object" THEN Thrown(TypeError, st.fs, st.log)
  ELSE IF Falsy(fileConfig.path)
  THEN Thrown(Error(<<"File configuration must include \"path\"">>), st.fs, st.log)
  ELSE IF ~(Truthy(fileConfig.patterns) /\ IsArray(fileConfig.patterns))
          /\ ~(Truthy(fileConfig.pattern) /\ Truthy(fileConfig.replacement))
  THEN Thrown(Error(<<"File ", "must include either \"patterns\" array or \"pattern\" and \"replacement\" properties">>),
              st.fs, st.log)
  ELSE IF fileConfig.path.t # "string" THEN Thrown(TypeError, st.fs, st.log)
  ELSE LET p == fileConfig.path.s
           patternsToProcess ==
             IF Truthy(fileConfig.patterns) /\ IsArray(fileConfig.patterns)
             THEN fileConfig.patterns.items
             ELSE <<[t |-> "object", regex |-> fileConfig.pattern,
                     replacement |-> fileConfig.replacement]>>
           probed == Append(st.log, <<"exists", p>>)
       IN IF ~existsSync(st.fs, p)
          THEN Thrown(Error(<<"File not found", ": ", p[1]>>), st.fs, probed)
          ELSE ApplyPatterns(patternsToProcess, 1, st.fs[p].data, 0, p, version,
                             datetime, [fs |-> st.fs, log |-> Append(probed, <<"read", p>>)])

\* UpdateFiles logging a failure and going on with the next file.
RECURSIVE UpdateFilesContinue(_, _, _, _, _)
UpdateFilesContinue(files, k, version, datetime, st) ==
  IF k > Len(files)
  THEN [status |-> "resolved", err |-> NoError, fs |-> st.fs, results |-> st.results,
        log |-> st.log, at |-> 0, pre |-> st.pre]
  ELSE LET Updated(r) ==
             IF r.ok
             THEN UpdateFilesContinue(files, k + 1, version, datetime,
                    [fs |-> r.fs, log |-> r.log, pre |-> st.fs,
                     results |-> Append(st.results,
                        [path |-> files[k].path.s, replacements |-> r.replacements])])
             ELSE UpdateFilesContinue(files, k + 1, version, datetime,
                    [fs |-> r.fs, log |-> r.log, pre |-> st.fs, results |-> st.results])
       IN Updated(updateFile(files[k], version, datetime, [fs |-> st.fs, log |-> st.log]))

\* The loop of prepare over pluginConfig.files from file k on.  `results` is
\* the code's results array; `pre` is the disk as the last updateFile call
\* found it.
RECURSIVE UpdateFiles(_, _, _, _, _)
UpdateFiles(files, k, version, datetime, st) ==
  IF k > Len(files)
  THEN [status |-> "resolved", err |-> NoError, fs |-> st.fs, results |-> st.results,
        log |-> st.log, at |-> 0, pre |-> st.pre]
  ELSE LET Updated(r) ==
             IF r.ok
             THEN UpdateFiles(files, k + 1, version, datetime,
                    [fs |-> r.fs, log |-> r.log, pre |-> st.fs,
                     results |-> Append(st.results,
                        [path |-> files[k].path.s, replacements |-> r.replacements])])
             ELSE [status |-> "rejected", err |-> r.err, fs |-> r.fs,
                   results |-> st.results, log |-> r.log, at |-> k, pre |-> st.fs]
       IN Updated(updateFile(files[k], version, datetime, [fs |-> st.fs, log |-> st.log]))

\* prepare without the check of pluginConfig.files.
prepareUnchecked(pluginConfig, version, disk) ==
  LET datetime == getFormattedDatetime(
                    IF Truthy(pluginConfig.datetimeFormat)
                    THEN pluginConfig.datetimeFormat ELSE Str(<<"iso">>))
  IN IF ~IsArray(pluginConfig.files)
     THEN [status |-> "rejected", err |-> TypeError,
           fs |-> disk, results |-> <<>>, log |-> <<>>, at |-> 0, pre |-> disk,
           datetime |-> datetime]
     ELSE [datetime |-> datetime] @@
          UpdateFiles(pluginConfig.files.items, 1, version, datetime,
                      [fs |-> disk, log |-> <<>>, pre |-> disk, results |-> <<>>])

\* prepare(pluginConfig, context) on disk `disk`
prepare(pluginConfig, version, disk) ==
  LET datetime == getFormattedDatetime(
                    IF Truthy(pluginConfig.datetimeFormat)
                    THEN pluginConfig.datetimeFormat ELSE Str(<<"iso">>))
  IN IF Falsy(pluginConfig.files) \/ ~IsArray(pluginConfig.files)
     THEN [status |-> "rejected",
           err |-> Error(<<"update-version plugin ", "requires \"files\" array", " in configuration">>),
           fs |-> disk, results |-> <<>>, log |-> <<>>, at |-> 0, pre |-> disk,
           datetime |-> datetime]
     ELSE [datetime |-> datetime] @@
          UpdateFiles(pluginConfig.files.items, 1, version, datetime,
                      [fs |-> disk, log |-> <<>>, pre |-> disk, results |-> <<>>])

(***************************************************************************)
(* index.js: validateConfig and validateUpdateVersionDryRun                *)
(***************************************************************************)
\* `${n}` for the numbers of the messages
N(n) == IF n = 0 THEN "0" ELSE Digits[n]

CommitAnalyzer == Str(<<"@semantic-release/commit-analyzer">>)
ReleaseNotes == Str(<<"@semantic-release/release-notes-generator">>)
Npm == Str(<<"@semantic-release/npm">>)
Git == Str(<<"@semantic-release/git">>)
GitHub == Str(<<"@semantic-release/github">>)
\* path.join(__dirname, 'update-version.js')
UpdateVersionJs == Str(<<"/release-config/", "update-version.js">>)

\* p[i] of a plugin entry that is an array
At(p, i) == IF i <= Len(p.items) THEN p.items[i] ELSE Undefined

\* v.prop of a value: undefined unless the value is an object that has it
Prop(v, prop) ==
  IF v.t = "object" /\ prop \in DOMAIN v THEN v[prop] ELSE Undefined

\* str.includes(part)
Includes(str, part) == \E i \in 1..(Len(str) + 1) : HasAt(str, part, i)

TestVersion == <<"1", ".", "2", ".", "3">>
TestDatetime == <<"D">>

\* repl.replace(/\{version\}/g, testVersion).replace(/\{datetime\}/g, testDatetime)
\*     .replace(/\$\{version\}/g, testVersion).replace(/\$\{date\}/g, testDatetime)
DryRunReplacement(repl) ==
  LET r1 == StringReplace(repl, Literal(<<"{version}">>), TestVersion)
      r2 == StringReplace(r1, Literal(<<"{datetime}">>), TestDatetime)
      r3 == StringReplace(r2, Literal(<<"$", "{version}">>), TestVersion)
  IN StringReplace(r3, Literal(<<"$", "{date}">>), TestDatetime)

PatternLabel(pluginNum, fileNum, patternNum) ==
  <<"update-version plugin #", N(pluginNum), ", file #", N(fileNum),
    ", pattern #", N(patternNum)>>
FileLabel(pluginNum, fileNum) ==
  <<"update-version plugin #", N(pluginNum), ", file #", N(fileNum)>>

\* TestPatterns counting every pattern that matches.
RECURSIVE TestPatternsCountMatches(_, _, _, _, _, _)
TestPatternsCountMatches(pats, k, content, pluginNum, fileNum, res) ==
  IF k > Len(pats) THEN res
  ELSE LET po == pats[k]
           label == PatternLabel(pluginNum, fileNum, k)
           Failed(msg) == [res EXCEPT !.errors = Append(@, label \o msg), !.success = FALSE]
           Warned(msg) == [res EXCEPT !.warnings = Append(@, label \o msg)]
           Go(r) == TestPatternsCountMatches(pats, k + 1, content, pluginNum, fileNum, r)
       IN IF po.t # "object" THEN [res EXCEPT !.threw = TRUE]
          ELSE IF RegexThrows(po.regex)
          THEN Go(Failed(<<": ", "regex error", " - ", "Invalid regular expression">>))
          ELSE IF po.regex.t \notin {"string", "RegExp"}
          THEN Go(Failed(<<": ", "invalid regex">>))
          ELSE IF po.replacement.t # "string"
          THEN Go(Failed(<<": ", "regex error", " - ", "TypeError">>))
          ELSE LET Tested(regexObj, final) ==
                     IF ~Matches(content, regexObj)
                     THEN Warned(<<": ", "regex pattern does not match any content in the file">>)
                     ELSE IF StringReplace(content, regexObj, final) = content
                     THEN [Warned(<<": ", "pattern matches but replacement produces no changes">>)
                             EXCEPT !.replacements = @ + 1]
                     ELSE IF Includes(final, <<"{version}">>) \/ Includes(final, <<"{datetime}">>)
                     THEN [Warned(<<": ", "replacement still contains unreplaced placeholders">>)
                             EXCEPT !.replacements = @ + 1]
                     ELSE [res EXCEPT !.replacements = @ + 1]
               IN Go(Tested(ToRegexObj(po.regex), DryRunReplacement(po.replacement.s)))

\* The forEach over patternsToTest from pattern k on; res is the dry-run
\* result so far.  A thrown exception that the callback does not catch ends
\* the loop (res.threw).
RECURSIVE TestPatterns(_, _, _, _, _, _)
TestPatterns(pats, k, content, pluginNum, fileNum, res) ==
  IF k > Len(pats) THEN res
  ELSE LET po == pats[k]
           label == PatternLabel(pluginNum, fileNum, k)
           Failed(msg) == [res EXCEPT !.errors = Append(@, label \o msg), !.success = FALSE]
           Warned(msg) == [res EXCEPT !.warnings = Append(@, label \o msg)]
           Go(r) == TestPatterns(pats, k + 1, content, pluginNum, fileNum, r)
       IN IF po.t # "object" THEN [res EXCEPT !.threw = TRUE]
          ELSE IF RegexThrows(po.regex)
          THEN Go(Failed(<<": ", "regex error", " - ", "Invalid regular expression">>))
          ELSE IF po.regex.t \notin {"string", "RegExp"}
          THEN Go(Failed(<<": ", "invalid regex">>))
          ELSE IF po.replacement.t # "string"
          THEN Go(Failed(<<": ", "regex error", " - ", "TypeError">>))
          ELSE LET Tested(regexObj, final) ==
                     IF ~Matches(content, regexObj)
                     THEN Warned(<<": ", "regex pattern does not match any content in the file">>)
                     ELSE IF StringReplace(content, regexObj, final) = content
                     THEN Warned(<<": ", "pattern matches but replacement produces no changes">>)
                     ELSE IF Includes(final, <<"{version}">>) \/ Includes(final, <<"{datetime}">>)
                     THEN [Warned(<<": ", "replacement still contains unreplaced placeholders">>)
                             EXCEPT !.replacements = @ + 1]
                     ELSE [res EXCEPT !.replacements = @ + 1]
               IN Go(Tested(ToRegexObj(po.regex), DryRunReplacement(po.replacement.s)))

\* validateUpdateVersionDryRun that patches the file as updateFile does, with
\* the test values.
validateUpdateVersionDryRunLive(fileConfig, pluginNum, fileNum, disk) ==
  LET result == [threw |-> FALSE, success |-> TRUE, errors |-> <<>>, warnings |-> <<>>,
                 replacements |-> 0, fs |-> disk]
      live == updateFile(fileConfig, TestVersion, TestDatetime, [fs |-> disk, log |-> <<>>])
  IN IF fileConfig.path.t # "string" THEN [result EXCEPT !.threw = TRUE]
     ELSE IF ~existsSync(disk, fileConfig.path.s)
     THEN [result EXCEPT !.success = FALSE,
             !.errors = <<FileLabel(pluginNum, fileNum)
                          \o <<": ", "target file not found", ": ", fileConfig.path.s[1]>> >>]
     ELSE [result EXCEPT !.success = live.ok, !.fs = live.fs,
             !.replacements = live.replacements]

\* validateUpdateVersionDryRun(fileConfig, pluginNum, fileNum) on disk `disk`
validateUpdateVersionDryRun(fileConfig, pluginNum, fileNum, disk) ==
  LET result == [threw |-> FALSE, success |-> TRUE, errors |-> <<>>, warnings |-> <<>>,
                 replacements |-> 0, fs |-> disk]
  IN IF fileConfig.path.t # "string" THEN [result EXCEPT !.threw = TRUE]
     ELSE IF ~existsSync(disk, fileConfig.path.s)
     THEN [result EXCEPT !.success = FALSE,
             !.errors = <<FileLabel(pluginNum, fileNum)
                          \o <<": ", "target file not found", ": ", fileConfig.path.s[1]>> >>]
     ELSE LET patternsToTest ==
                IF Truthy(fileConfig.patterns) /\ IsArray(fileConfig.patterns)
                THEN fileConfig.patterns.items
                ELSE IF Truthy(fileConfig.pattern) /\ Truthy(fileConfig.replacement)
                THEN <<[t |-> "object", regex |-> fileConfig.pattern,
                        replacement |-> fileConfig.replacement]>>
                ELSE <<>>
          IN TestPatterns(patternsToTest, 1, disk[fileConfig.path.s].data,
                          pluginNum, fileNum, result)

\* An error pushed without marking the result invalid.
FailStaysValid(a, msg) == [a EXCEPT !.errors = Append(@, msg)]

\* result.errors.push(msg); result.isValid = false
Fail(a, msg) == [a EXCEPT !.isValid = FALSE, !.errors = Append(@, msg)]

\* suggestions.join(', ')
RECURSIVE Join(_)
Join(names) ==
  IF names = <<>> THEN <<>>
  ELSE IF Len(names) = 1 THEN names[1]
  ELSE names[1] \o <<", ">> \o Join(Tail(names))

\* The unknown-property error without the "Did you mean" suggestion.
UnknownPropertyPlain(prop, pluginNum, fileNum) ==
  FileLabel(pluginNum, fileNum) \o <<": ", "unknown property", " \"">> \o prop
    \o <<"\".">>

\* The error for an unknown property name of a file rule.
UnknownProperty(prop, pluginNum, fileNum) ==
  LET suggestions ==
        (IF Includes(prop, <<"path">>) THEN <<<<"path">>>> ELSE <<>>)
        \o (IF Includes(prop, <<"pattern">>)
            THEN <<<<"pattern">>, <<"pattern", "s">>>> ELSE <<>>)
        \o (IF Includes(prop, <<"replacement">>) THEN <<<<"replacement">>>> ELSE <<>>)
      suggestion == IF suggestions # <<>>
                    THEN <<" Did you mean: ">> \o Join(suggestions) \o <<"?">> ELSE <<>>
  IN FileLabel(pluginNum, fileNum) \o <<": ", "unknown property", " \"">> \o prop
       \o <<"\".">> \o suggestion

\* The checks of the patterns array of a file rule from pattern k on.
RECURSIVE CheckPatterns(_, _, _, _, _)
CheckPatterns(pats, k, pluginNum, fileNum, acc) ==
  IF k > Len(pats) THEN acc
  ELSE IF pats[k].t # "object" THEN [acc EXCEPT !.threw = TRUE]
  ELSE LET Missing(a, prop) ==
             IF Falsy(pats[k][prop])
             THEN Fail(a, PatternLabel(pluginNum, fileNum, k)
                          \o <<": ", "missing required \"", prop, "\" property">>)
             ELSE a
       IN CheckPatterns(pats, k + 1, pluginNum, fileNum,
                        Missing(Missing(acc, "regex"), "replacement"))

RECURSIVE CheckProps(_, _, _, _, _)
CheckProps(props, k, pluginNum, fileNum, acc) ==
  IF k > Len(props) THEN acc
  ELSE CheckProps(props, k + 1, pluginNum, fileNum,
                  Fail(acc, UnknownProperty(props[k], pluginNum, fileNum)))

\* DryRun taking a warning of the dry-run for a failure.
DryRunWarningsFail(fileConfig, pluginNum, fileNum, acc) ==
  LET label == FileLabel(pluginNum, fileNum)
      Merged(dryRunResult) ==
        IF dryRunResult.threw
        THEN Fail([acc EXCEPT !.fs = dryRunResult.fs],
                  label \o <<": ", "dry-run failed", " - ", "TypeError">>)
        ELSE IF ~dryRunResult.success \/ dryRunResult.warnings # <<>>
        THEN [acc EXCEPT !.fs = dryRunResult.fs, !.isValid = FALSE,
                !.errors = @ \o dryRunResult.errors,
                !.warnings = @ \o dryRunResult.warnings]
        ELSE [acc EXCEPT !.fs = dryRunResult.fs,
                !.errors = @ \o dryRunResult.errors,
                !.warnings = @ \o dryRunResult.warnings,
                !.suggestions = Append(@,
                   label \o <<": ", "dry-run successful", " - ",
                              N(dryRunResult.replacements), " pattern(s) would match">>)]
  IN IF acc.threw THEN acc
     ELSE IF Truthy(fileConfig.path)
             /\ (\/ Truthy(fileConfig.patterns) /\ IsArray(fileConfig.patterns)
                 \/ Truthy(fileConfig.pattern) /\ Truthy(fileConfig.replacement))
     THEN Merged(validateUpdateVersionDryRun(fileConfig, pluginNum, fileNum, acc.fs))
     ELSE acc

\* // Perform dry-run validation of the actual file processing
DryRun(fileConfig, pluginNum, fileNum, acc) ==
  LET label == FileLabel(pluginNum, fileNum)
      Merged(dryRunResult) ==
        IF dryRunResult.threw
        THEN Fail([acc EXCEPT !.fs = dryRunResult.fs],
                  label \o <<": ", "dry-run failed", " - ", "TypeError">>)
        ELSE IF ~dryRunResult.success
        THEN [acc EXCEPT !.fs = dryRunResult.fs, !.isValid = FALSE,
                !.errors = @ \o dryRunResult.errors,
                !.warnings = @ \o dryRunResult.warnings]
        ELSE [acc EXCEPT !.fs = dryRunResult.fs,
                !.errors = @ \o dryRunResult.errors,
                !.warnings = @ \o dryRunResult.warnings,
                !.suggestions = Append(@,
                   label \o <<": ", "dry-run successful", " - ",
                              N(dryRunResult.replacements), " pattern(s) would match">>)]
  IN IF acc.threw THEN acc
     ELSE IF Truthy(fileConfig.path)
             /\ (\/ Truthy(fileConfig.patterns) /\ IsArray(fileConfig.patterns)
                 \/ Truthy(fileConfig.pattern) /\ Truthy(fileConfig.replacement))
     THEN Merged(validateUpdateVersionDryRun(fileConfig, pluginNum, fileNum, acc.fs))
     ELSE acc

\* The checks of a file rule before its dry-run: the path, the property
\* names, the shape and the patterns array.
CheckRule(fileConfig, pluginNum, fileNum, acc) ==
  LET label == FileLabel(pluginNum, fileNum)
      hasPatterns == Truthy(fileConfig.patterns) /\ IsArray(fileConfig.patterns)
      hasSimpleFormat == Truthy(fileConfig.pattern) /\ Truthy(fileConfig.replacement)
      Path(a) ==
        IF Falsy(fileConfig.path)
        THEN Fail(a, label \o <<": ", "missing required \"path\" property">>)
        ELSE a
      Props(a) == CheckProps(fileConfig.unknown, 1, pluginNum, fileNum, a)
      Shape(a) ==
        IF ~hasPatterns /\ ~hasSimpleFormat
        THEN Fail(a, label \o <<": ",
               "must have either \"patterns\" array or both \"pattern\" and \"replacement\" properties">>)
        ELSE a
      Patterns(a) ==
        IF hasPatterns
        THEN CheckPatterns(fileConfig.patterns.items, 1, pluginNum, fileNum, a)
        ELSE a
  IN Patterns(Shape(Props(Path(acc))))

\* The body of files.forEach for one file rule; acc is the validation result
\* so far, with the disk and whether an exception has escaped.
ValidateFile(fileConfig, pluginNum, fileNum, acc) ==
  IF fileConfig.t # "object" THEN [acc EXCEPT !.threw = TRUE]
  ELSE DryRun(fileConfig, pluginNum, fileNum,
              CheckRule(fileConfig, pluginNum, fileNum, acc))

\* ValidateFiles stopping at the first file rule that made the result invalid.
RECURSIVE ValidateFilesUntilInvalid(_, _, _, _)
ValidateFilesUntilInvalid(files, k, pluginNum, acc) ==
  IF k > Len(files) \/ acc.threw \/ ~acc.isValid THEN acc
  ELSE ValidateFilesUntilInvalid(files, k + 1, pluginNum,
                                 ValidateFile(files[k], pluginNum, k, acc))

RECURSIVE ValidateFiles(_, _, _, _)
ValidateFiles(files, k, pluginNum, acc) ==
  IF k > Len(files) \/ acc.threw THEN acc
  ELSE ValidateFiles(files, k + 1, pluginNum, ValidateFile(files[k], pluginNum, k, acc))

\* updateVersionPlugins.forEach from plugin i on
RECURSIVE ValidatePlugins(_, _, _)
ValidatePlugins(plugins, i, acc) ==
  IF i > Len(plugins) \/ acc.threw THEN acc
  ELSE LET Checked(files) ==
             IF Falsy(files) THEN acc
             ELSE IF ~IsArray(files)
             THEN Fail(acc, <<"update-version plugin #", N(i), ": ",
                              "\"files\" must be an array">>)
             ELSE ValidateFiles(files.items, 1, i, acc)
       IN ValidatePlugins(plugins, i + 1, Checked(Prop(At(plugins[i], 2), "files")))

\* const { strict = false, checkPlugins = true, verbose = false } = options || {}
Opt(options, name, default) == IF options.t = "object" THEN options[name] ELSE default

\* (Array.isArray(p) && p[0] === name) || p === name
IsPlugin(p, name) == (IsArray(p) /\ At(p, 1) = name) \/ p = name

\* config.plugins.some(p => IsPlugin(p, name)), false when plugins is no array
HasPlugin(config, name) ==
  /\ Truthy(config.plugins) /\ IsArray(config.plugins)
  /\ \E i \in 1..Len(config.plugins.items) : IsPlugin(config.plugins.items[i], name)

\* Array.isArray(p) && p[0] && p[0].includes('update-version.js')
IsUpdateVersionPlugin(p) ==
  /\ IsArray(p) /\ Truthy(At(p, 1))
  /\ At(p, 1).t = "string" /\ Includes(At(p, 1).s, <<"update-version.js">>)

\* config.plugins.filter(IsUpdateVersionPlugin) from entry k on
RECURSIVE UpdateVersionPlugins(_, _)
UpdateVersionPlugins(plugins, k) ==
  IF k > Len(plugins) THEN <<>>
  ELSE (IF IsUpdateVersionPlugin(plugins[k]) THEN <<plugins[k]>> ELSE <<>>)
       \o UpdateVersionPlugins(plugins, k + 1)

\* p[0].includes is not a function
IncludesThrows(p) ==
  IsArray(p) /\ Truthy(At(p, 1)) /\ At(p, 1).t \notin {"string", "array"}

\* requiredPlugins.forEach: a warning for each recommended plugin that
\* pluginNames does not include
CheckRequired(plugins, acc) ==
  LET Name(i) == IF IsArray(plugins[i]) THEN At(plugins[i], 1) ELSE plugins[i]
      Recommend(a, required) ==
        IF \E i \in 1..Len(plugins) : Name(i) = required THEN a
        ELSE [a EXCEPT !.warnings =
                Append(@, <<"Missing recommended plugin", ": ", required.s[1]>>)]
  IN Recommend(Recommend(acc, CommitAnalyzer), ReleaseNotes)

\* // Check for npm plugin configuration
CheckNpm(plugins, acc) ==
  LET Found(found) == IF found = {} THEN Undefined ELSE plugins[SetMin(found)]
      Suggest(npmPlugin) ==
        IF /\ Truthy(npmPlugin) /\ IsArray(npmPlugin) /\ Truthy(At(npmPlugin, 2))
           /\ Prop(At(npmPlugin, 2), "npmPublish").t = "undefined"
        THEN [acc EXCEPT !.suggestions = Append(@,
                <<"Consider explicitly setting npmPublish option for @semantic-release/npm plugin">>)]
        ELSE acc
  IN Suggest(Found({i \in 1..Len(plugins) : IsPlugin(plugins[i], Npm)}))

\* // Validate custom update-version plugins
CheckUpdateVersion(plugins, acc) ==
  IF \E i \in 1..Len(plugins) : IncludesThrows(plugins[i])
  THEN [acc EXCEPT !.threw = TRUE]
  ELSE ValidatePlugins(UpdateVersionPlugins(plugins, 1), 1, acc)

\* The checkPlugins block of validateConfig.
CheckPlugins(plugins, acc) ==
  CheckUpdateVersion(plugins, CheckNpm(plugins, CheckRequired(plugins, acc)))

\* // Validate branches
ValidateBranches(config, result) ==
  IF Falsy(config.branches)
  THEN [result EXCEPT !.warnings =
          Append(@, <<"No ", "branches", " specified, semantic-release will use defaults">>)]
  ELSE IF ~IsArray(config.branches)
  THEN Fail(result, <<"Branches", " must be an array">>)
  ELSE IF Len(config.branches.items) = 0
  THEN Fail(result, <<"At least one branch must be specified">>)
  ELSE result

\* ValidatePluginList without the check for a missing `plugins`.
ValidatePluginListOptional(config, result) ==
  IF Falsy(config.plugins) THEN result
  ELSE IF ~IsArray(config.plugins) THEN Fail(result, <<"Plugins", " must be an array">>)
  ELSE IF Len(config.plugins.items) = 0
  THEN Fail(result, <<"At least one plugin must be specified">>)
  ELSE result

\* // Validate plugins
ValidatePluginList(config, result) ==
  IF Falsy(config.plugins) THEN Fail(result, <<"No ", "plugins", " specified">>)
  ELSE IF ~IsArray(config.plugins) THEN Fail(result, <<"Plugins", " must be an array">>)
  ELSE IF Len(config.plugins.items) = 0
  THEN Fail(result, <<"At least one plugin must be specified">>)
  ELSE result

\* ApplyStrict that leaves the result as it is.
ApplyStrictIgnored(strict, result) == result

\* // Apply strict mode
ApplyStrict(strict, result) ==
  IF strict /\ Len(result.warnings) > 0 THEN [result EXCEPT !.isValid = FALSE] ELSE result

\* // Generate summary
Summary(config, acc) ==
  LET isArr(v) == Truthy(v) /\ IsArray(v)
  IN [acc EXCEPT !.summary =
        [t |-> "object",
         hasValidStructure |-> Len(acc.errors) = 0,
         branchCount |-> IF isArr(config.branches) THEN Len(config.branches.items) ELSE 0,
         pluginCount |-> IF isArr(config.plugins) THEN Len(config.plugins.items) ELSE 0,
         hasNpmPlugin |-> HasPlugin(config, Npm),
         hasGitPlugin |-> HasPlugin(config, Git),
         hasGitHubPlugin |-> HasPlugin(config, GitHub)]]

\* // Add verbose explanations if requested
Verbose(verbose, acc) ==
  LET Suggest(a, when, msg) ==
        IF verbose /\ when THEN [a EXCEPT !.suggestions = Append(@, <<msg>>)] ELSE a
  IN Suggest(
       Suggest(
         Suggest(
           Suggest(acc, acc.summary.hasValidStructure, "Configuration structure is valid"),
           acc.summary.hasNpmPlugin, "NPM plugin detected - good for publishing packages"),
         acc.summary.hasGitPlugin, "Git plugin detected - will commit release changes"),
       acc.summary.hasGitHubPlugin, "GitHub plugin detected - will create GitHub releases")

\* validateConfig from the branches check on, for a configuration object.
ValidateObject(config, strict, checkPlugins, verbose, result) ==
  LET Plugins(a) ==
        IF checkPlugins /\ Truthy(config.plugins) /\ IsArray(config.plugins)
        THEN CheckPlugins(config.plugins.items, a)
        ELSE a
      Finish(a) ==
        IF a.threw THEN a
        ELSE ApplyStrict(strict, Verbose(verbose, Summary(config, a)))
  IN Finish(Plugins(ValidatePluginList(config, ValidateBranches(config, result))))

\* validateConfig(config, options) on disk `disk`.  The result carries the
\* disk the call leaves and whether it threw instead of returning.
validateConfig(config, options, disk) ==
  LET result == [threw |-> FALSE, isValid |-> TRUE, errors |-> <<>>, warnings |-> <<>>,
                 suggestions |-> <<>>, summary |-> [t |-> "object"], fs |-> disk]
  IN IF config.t = "string"
     THEN Fail(result, <<"Failed to load config file", ": ", "Cannot find module">>)
     ELSE IF config.t # "object"
     THEN Fail(result, <<"Configuration must be an object">>)
     ELSE ValidateObject(config, Opt(options, "strict", FALSE),
                         Opt(options, "checkPlugins", TRUE),
                         Opt(options, "verbose", FALSE), result)

(***************************************************************************)
(* validate-config.js                                                      *)
(***************************************************************************)
\* { verbose: true, checkPlugins: true }
CliOptions ==
  [t |-> "object", strict |-> FALSE, checkPlugins |-> TRUE, verbose |-> TRUE]

\* main exiting with 0 whenever validateConfig returns.
mainIgnoresResult(module, disk) ==
  IF ~module.exists THEN [exit |-> 1, fs |-> disk]
  ELSE IF ~module.loads THEN [exit |-> 1, fs |-> disk]
  ELSE LET Exit(result) ==
             IF result.threw THEN [exit |-> 1, fs |-> result.fs]
             ELSE [exit |-> 0, fs |-> result.fs]
       IN Exit(validateConfig(module.exports, CliOptions, disk))

\* main() for the configuration file `module`: whether it exists, whether
\* require(fullPath) loads it, and what it exports.  The result is the exit
\* code of the process and the disk it leaves.
main(module, disk) ==
  IF ~module.exists THEN [exit |-> 1, fs |-> disk]
  ELSE IF ~module.loads THEN [exit |-> 1, fs |-> disk]
  ELSE LET Exit(result) ==
             IF result.threw THEN [exit |-> 1, fs |-> result.fs]
             ELSE IF result.isValid THEN [exit |-> 0, fs |-> result.fs]
             ELSE [exit |-> 1, fs |-> result.fs]
       IN Exit(validateConfig(module.exports, CliOptions, disk))

(***************************************************************************)
(* Inputs.  Lists of one element draw it from a rich set, longer lists     *)
(* draw their elements from a core set.                                    *)
(***************************************************************************)
Lists(Rich, Core, n) ==
  {<<>>} \cup {<<x>> : x \in Rich} \cup UNION {[1..k -> Core] : k \in 2..n}

Obj(regex, replacement) == [t |-> "object", regex |-> regex, replacement |-> replacement]

Rule(path, patterns, pattern, replacement, unknown) ==
  [t |-> "object", path |-> path, patterns |-> patterns, pattern |-> pattern,
   replacement |-> replacement, unknown |-> unknown]

\* /(a).*?(a)/, the pattern string "0" (compiled to /0/g), an invalid pattern
\* string
WrapRe == RegExp(<<"a">>, TRUE, <<"a">>, 2, FALSE)
ZeroSrc == Source(TRUE, <<"0">>, FALSE, <<>>, 0)
BadSrc == Source(FALSE, <<>>, FALSE, <<>>, 0)

\* '$1{version}$2', '${version}', '{datetime}', '${date}', '0'
ReplVersion == Str(<<"$", "1", "{version}", "$", "2">>)
ReplDollarVersion == Str(<<"$", "{version}">>)
ReplDatetime == Str(<<"{datetime}">>)
ReplDollarDate == Str(<<"$", "{date}">>)
ReplZero == Str(<<"0">>)

RegexValues == {WrapRe, ZeroSrc, BadSrc, Num, Undefined}
ReplValues == {ReplVersion, ReplDollarVersion, ReplDatetime, ReplDollarDate, ReplZero,
               Str(<<>>), Undefined}

RichPatterns == {Obj(r, x) : r \in RegexValues, x \in ReplValues} \cup {Null}
CorePatterns == {Obj(WrapRe, ReplVersion), Obj(ZeroSrc, ReplDatetime),
                 Obj(ZeroSrc, ReplDollarVersion)}

PatternLists == Lists(RichPatterns, CorePatterns, MaxPatterns)

F1 == Str(<<"f1">>)
F2 == Str(<<"f2">>)

RichRules ==
  {Rule(F1, Arr(l), Undefined, Undefined, <<>>) : l \in PatternLists}
  \cup {Rule(F1, Undefined, r, x, <<>>) : r \in RegexValues, x \in ReplValues}
  \cup {Rule(F1, Arr(<<Obj(ZeroSrc, ReplDatetime)>>), WrapRe, ReplVersion, <<>>),
        Rule(F1, Str(<<"x">>), Undefined, Undefined, <<>>),
        Rule(F1, Str(<<"x">>), ZeroSrc, ReplDatetime, <<>>),
        Null}
  \cup {Rule(p, Arr(l), Undefined, Undefined, <<>>) :
          p \in {F2, Undefined, Num}, l \in {<<>>, <<Obj(ZeroSrc, ReplDatetime)>>}}
  \cup {Rule(F2, Undefined, r, x, <<>>) : r \in {ZeroSrc, Undefined}, x \in {ReplDatetime}}

CoreRules ==
  {Rule(F1, Arr(<<Obj(WrapRe, ReplVersion)>>), Undefined, Undefined, <<>>),
   Rule(F1, Arr(<<Obj(ZeroSrc, ReplDatetime)>>), Undefined, Undefined, <<>>),
   Rule(F2, Undefined, ZeroSrc, ReplDollarDate, <<>>)}

FileLists == Lists(RichRules, CoreRules, MaxFiles)

\* Every files value with the default datetime format, and each datetime
\* format with the one-rule core configurations.
PluginConfigs ==
  {[files |-> f, datetimeFormat |-> Undefined] :
     f \in {Undefined, Str(<<"x">>)} \cup {Arr(l) : l \in FileLists}}
  \cup {[files |-> Arr(<<r>>), datetimeFormat |-> Str(<<d>>)] :
          r \in CoreRules, d \in {"iso", "unix", "custom"}}

\* Plugin entries of a configuration: names, [name, options] pairs, and
\* entries that are neither.
Boolean(b) == [t |-> "boolean", b |-> b]
Options(name, v) == [t |-> "object"] @@ (name :> v)
RichPlugins ==
  {CommitAnalyzer, ReleaseNotes, Npm, Git, Null, Arr(<<>>), Arr(<<GitHub>>),
   Arr(<<Npm, Options("npmPublish", Undefined)>>),
   Arr(<<Npm, Options("npmPublish", Boolean(FALSE))>>),
   Arr(<<Num, Options("files", Arr(<<>>))>>),
   Arr(<<UpdateVersionJs>>)}
CorePlugins ==
  {CommitAnalyzer, ReleaseNotes, Git, Arr(<<Npm, Options("npmPublish", Undefined)>>)}
PluginLists == Lists(RichPlugins, CorePlugins, MaxPlugins)

Config(branches, plugins) == [t |-> "object", branches |-> branches, plugins |-> plugins]
Main == Arr(<<Str(<<"main">>)>>)
BranchesValues == {Undefined, Str(<<"main">>), Arr(<<>>), Main}

ValidateOptions ==
  {Undefined} \cup {[t |-> "object", strict |-> s, checkPlugins |-> c, verbose |-> v] :
                      s \in BOOLEAN, c \in BOOLEAN, v \in BOOLEAN}

\* Configurations that vary in their branches and plugin entries.
StructuralConfigs ==
  {Null, Str(<<"release.config.js">>)}
  \cup {Config(b, p) : b \in BranchesValues,
                       p \in {Undefined, Str(<<"x">>)} \cup {Arr(l) : l \in PluginLists}}

\* File rules with property names a rule does not have: 'pathss', 'regex',
\* 'replacements', 'patternz' and 'patternss'.
Pathss == <<"path", "ss">>
MisnamedRules ==
  {Rule(F1, Arr(<<Obj(ZeroSrc, ReplDatetime)>>), Undefined, Undefined, <<Pathss>>),
   Rule(Undefined, Arr(<<Obj(ZeroSrc, ReplDatetime)>>), Undefined, Undefined, <<Pathss>>),
   Rule(F1, Undefined, Undefined, Undefined, <<<<"regex">>, <<"replacement", "s">>>>),
   Rule(F1, Undefined, ZeroSrc, ReplDatetime,
        <<<<"pattern", "z">>, <<"pattern", "s", "s">>>>)}

\* '{date}', a brace token that no substitution replaces
ReplBareDate == Str(<<"{date}">>)

\* File rules of two patterns of which the first changes a "0" of the file
\* and the second is an invalid pattern string, or matches and changes
\* nothing; and a rule that replaces a "0" by '{date}'.
MixedRules ==
  {Rule(F1, Arr(<<Obj(ZeroSrc, ReplDatetime), Obj(BadSrc, ReplDatetime)>>),
        Undefined, Undefined, <<>>),
   Rule(F1, Arr(<<Obj(ZeroSrc, ReplDatetime), Obj(ZeroSrc, ReplZero)>>),
        Undefined, Undefined, <<>>),
   Rule(F1, Arr(<<Obj(ZeroSrc, ReplBareDate)>>), Undefined, Undefined, <<>>)}

ValidateFileLists ==
  Lists(RichRules \cup MisnamedRules \cup MixedRules, CoreRules, MaxFiles)

UpdateVersion(files) == Arr(<<UpdateVersionJs, Options("files", files)>>)

\* Configurations with the recommended plugins and update-version entries
\* that vary in their file rules.
FileRuleConfigs ==
  {Config(Main, Arr(<<CommitAnalyzer, ReleaseNotes, UpdateVersion(f)>>)) :
     f \in {Undefined, Str(<<"x">>)} \cup {Arr(l) : l \in ValidateFileLists}}
  \cup {Config(Main, Arr(<<UpdateVersion(f), UpdateVersion(g)>>)) :
          f, g \in {Str(<<"x">>)} \cup {Arr(<<r>>) : r \in CoreRules}}

Versions == {<<"2">>, <<"1">>}

\* The calls of prepare: every configuration for the release of version 2,
\* the one-rule core configurations for each version.
PrepareCalls ==
  {<<c, <<"2">>>> : c \in PluginConfigs}
  \cup {<<[files |-> Arr(<<r>>), datetimeFormat |-> Undefined], v>> :
          r \in CoreRules, v \in Versions}

Alphabet == {"a", "0"}
Texts(n) == UNION {[1..k -> Alphabet] : k \in 0..n}

(***************************************************************************)
(* index.js: buildSemanticReleaseConfig                                    *)
(***************************************************************************)
Changelog == Str(<<"@semantic-release/changelog">>)

\* The defaults of the destructuring of opts.
DefaultBranches ==
  Arr(<<Str(<<"main">>),
        [t |-> "object", name |-> Str(<<"beta">>), prerelease |-> Str(<<"beta">>)]>>)
DefaultGitAssets ==
  Arr(<<Str(<<"CHANGELOG.md">>), Str(<<"package.json">>), Str(<<"package-lock.json">>)>>)
DefaultGitMessage ==
  Str(<<"chore(release): ${nextRelease.version} [skip ci]\n\n${nextRelease.notes}">>)

\* const { name = default } = opts: the default stands in for undefined only
Destructure(opts, name, default) ==
  IF Prop(opts, name) = Undefined THEN default ELSE Prop(opts, name)

\* ...v in an array literal: the elements of an array, the characters of a
\* string; any other value is not iterable.
Iterable(v) == v.t \in {"array", "string"}
Spread(v) ==
  IF v.t = "array" THEN v.items ELSE [i \in 1..Len(v.s) |-> Str(<<v.s[i]>>)]

GitOptions(assets, message) == [t |-> "object", assets |-> assets, message |-> message]

\* buildSemanticReleaseConfig putting the extraPrepare entries after the git
\* plugin.
buildSemanticReleaseConfigAppend(options) ==
  LET opts == IF Truthy(options) THEN options ELSE [t |-> "object"]
      extraPrepare == Destructure(opts, "extraPrepare", Arr(<<>>))
  IN IF ~Iterable(extraPrepare) THEN [threw |-> TRUE, config |-> Undefined]
     ELSE [threw |-> FALSE,
           config |->
             Config(Destructure(opts, "branches", DefaultBranches),
                    Arr(<<CommitAnalyzer, ReleaseNotes,
                          Arr(<<Npm, Options("npmPublish",
                                             Destructure(opts, "npmPublish", Boolean(FALSE)))>>),
                          Changelog>>
                        \o <<Arr(<<Git, GitOptions(
                                     Destructure(opts, "gitAssets", DefaultGitAssets),
                                     Destructure(opts, "gitMessage", DefaultGitMessage))>>)>>
                        \o Spread(extraPrepare)
                        \o <<GitHub>>))]

\* buildSemanticReleaseConfig(options); options is Undefined when the
\* argument is omitted.  Spreading an extraPrepare that is not iterable
\* throws a TypeError.
buildSemanticReleaseConfig(options) ==
  LET opts == IF Truthy(options) THEN options ELSE [t |-> "object"]
      extraPrepare == Destructure(opts, "extraPrepare", Arr(<<>>))
  IN IF ~Iterable(extraPrepare) THEN [threw |-> TRUE, config |-> Undefined]
     ELSE [threw |-> FALSE,
           config |->
             Config(Destructure(opts, "branches", DefaultBranches),
                    Arr(<<CommitAnalyzer, ReleaseNotes,
                          Arr(<<Npm, Options("npmPublish",
                                             Destructure(opts, "npmPublish", Boolean(FALSE)))>>),
                          Changelog>>
                        \o Spread(extraPrepare)
                        \o <<Arr(<<Git, GitOptions(
                                     Destructure(opts, "gitAssets", DefaultGitAssets),
                                     Destructure(opts, "gitMessage", DefaultGitMessage))>>),
                             GitHub>>))]

\* Options of buildSemanticReleaseConfig: omitted, null, a number, and
\* objects whose properties are given or not.  extraPrepare is a list of up to
\* MaxPlugins entries, or null.
ExecPlugin(cmd) == Arr(<<Str(<<"@semantic-release/exec">>), Options("prepareCmd", Str(<<cmd>>))>>)
ExtraPrepareValues ==
  {Undefined, Null}
  \cup {Arr(l) : l \in UNION {[1..k -> {ExecPlugin("a"), UpdateVersionJs}] : k \in 0..MaxPlugins}}
BuildOptions ==
  {Undefined, Null, Num}
  \cup {[t |-> "object", branches |-> b, npmPublish |-> n, gitAssets |-> a,
         gitMessage |-> m, extraPrepare |-> e] :
          b \in {Undefined, Main, Str(<<"main">>)},
          n \in {Undefined, Null, Boolean(TRUE), Boolean(FALSE)},
          a \in {Undefined, Arr(<<Str(<<"f1">>)>>)},
          m \in {Undefined, Str(<<"release">>)},
          e \in ExtraPrepareValues}

(***************************************************************************)
(* index.js: detectUserConfiguration.  A project directory is what         *)
(* package.json and the five release configuration files are: missing,     *)
(* failing to parse or load, or holding a value.                           *)
(***************************************************************************)
\* a && b, a || b on values
And(a, b) == IF Falsy(a) THEN a ELSE b
Or(a, b) == IF Truthy(a) THEN a ELSE b

\* const config = { branches: ['main'], nodeVersion: 'lts/*', ... }; `threw`
\* is set once a statement of the outer try has thrown, `warnings` holds what
\* console.warn printed.
DetectedDefaults ==
  [branches |-> Arr(<<Str(<<"main">>)>>), nodeVersion |-> Str(<<"l", "t", "s", "/", "*">>),
   runTests |-> FALSE, testCommand |-> Null, buildCommand |-> Null,
   isNpmPackage |-> Boolean(FALSE), additionalScripts |-> <<>>,
   threw |-> FALSE, warnings |-> <<>>]

\* config.isNpmPackage = !packageJson.private && (packageJson.name &&
\*   packageJson.name.startsWith('@') || packageJson.publishConfig)
DetectNpmPackage(packageJson, config) ==
  IF packageJson.t \in {"null", "undefined"} THEN [config EXCEPT !.threw = TRUE]
  ELSE IF Truthy(Prop(packageJson, "private"))
  THEN [config EXCEPT !.isNpmPackage = Boolean(FALSE)]
  ELSE IF Falsy(Prop(packageJson, "name"))
  THEN [config EXCEPT !.isNpmPackage = Prop(packageJson, "publishConfig")]
  ELSE IF Prop(packageJson, "name").t # "string" THEN [config EXCEPT !.threw = TRUE]
  ELSE [config EXCEPT !.isNpmPackage =
          Or(Boolean(Prop(packageJson, "name").s[1] = "@"),
             Prop(packageJson, "publishConfig"))]

\* nodeVersion.replace(/[^\d.]/g, '')
RECURSIVE DigitsAndDots(_)
DigitsAndDots(s) ==
  IF s = <<>> THEN <<>>
  ELSE (IF IsDigit(Head(s)) \/ Head(s) = "." THEN <<Head(s)>> ELSE <<>>)
       \o DigitsAndDots(Tail(s))

\* // Detect Node.js version from engines
DetectNodeVersion(packageJson, config) ==
  LET node == Prop(Prop(packageJson, "engines"), "node")
  IN IF config.threw \/ Falsy(Prop(packageJson, "engines")) \/ Falsy(node) THEN config
     ELSE IF node.t # "string" THEN [config EXCEPT !.threw = TRUE]
     ELSE IF Includes(node.s, <<">", "=">>) \/ Includes(node.s, <<"^">>)
             \/ Includes(node.s, <<"~">>)
     THEN [config EXCEPT !.nodeVersion = Str(DigitsAndDots(node.s))]
     ELSE [config EXCEPT !.nodeVersion = node]

\* 'echo "Error: no test specified" && exit 1'
NpmPlaceholder == Str(<<"echo \"Error: ", "no test specified", "\" && exit 1">>)

\* const hasTestFramework = scripts.jest || ... || packageJson.devDependencies && (...)
HasTestFramework(scripts, packageJson) ==
  \/ \E s \in {"jest", "mocha", "vitest", "ava", "tap", "nyc"} : Truthy(Prop(scripts, s))
  \/ /\ Truthy(Prop(packageJson, "devDependencies"))
     /\ \E d \in {"jest", "mocha", "vitest", "ava", "tap", "@testing-library/react",
                  "@testing-library/vue", "cypress", "playwright"} :
          Truthy(Prop(Prop(packageJson, "devDependencies"), d))

Tests(config, command) == [config EXCEPT !.runTests = TRUE, !.testCommand = Str(<<command>>)]

\* DetectTests taking any test script that is no placeholder, whether or not
\* a test framework is there.
DetectTestsEager(scripts, packageJson, config) ==
  LET test == Prop(scripts, "test")
  IN IF Truthy(Prop(scripts, "test:ci")) THEN Tests(config, "npm run test:ci")
     ELSE IF Truthy(Prop(scripts, "test:prod")) THEN Tests(config, "npm run test:prod")
     ELSE IF Truthy(Prop(scripts, "test:production"))
     THEN Tests(config, "npm run test:production")
     ELSE IF Falsy(test) \/ test = NpmPlaceholder \/ test = Str(<<"exit 1">>) THEN config
     ELSE IF test.t \notin {"string", "array"} THEN [config EXCEPT !.threw = TRUE]
     ELSE IF test.t = "string" /\ Includes(test.s, <<"no test specified">>) THEN config
     ELSE Tests(config, "npm test")

\* DetectTests taking the npm placeholder for a test script like any other.
DetectTestsPlaceholderToo(scripts, packageJson, config) ==
  LET test == Prop(scripts, "test")
  IN IF Truthy(Prop(scripts, "test:ci")) THEN Tests(config, "npm run test:ci")
     ELSE IF Truthy(Prop(scripts, "test:prod")) THEN Tests(config, "npm run test:prod")
     ELSE IF Truthy(Prop(scripts, "test:production"))
     THEN Tests(config, "npm run test:production")
     ELSE IF Falsy(test) THEN config
     ELSE IF test.t \notin {"string", "array"} THEN [config EXCEPT !.threw = TRUE]
     ELSE IF HasTestFramework(scripts, packageJson) THEN Tests(config, "npm test")
     ELSE config

\* // Test detection - be conservative, only enable if explicitly configured
DetectTests(scripts, packageJson, config) ==
  LET test == Prop(scripts, "test")
  IN IF Truthy(Prop(scripts, "test:ci")) THEN Tests(config, "npm run test:ci")
     ELSE IF Truthy(Prop(scripts, "test:prod")) THEN Tests(config, "npm run test:prod")
     ELSE IF Truthy(Prop(scripts, "test:production"))
     THEN Tests(config, "npm run test:production")
     ELSE IF Falsy(test) \/ test = NpmPlaceholder \/ test = Str(<<"exit 1">>) THEN config
     ELSE IF test.t \notin {"string", "array"} THEN [config EXCEPT !.threw = TRUE]
     ELSE IF test.t = "string" /\ Includes(test.s, <<"no test specified">>) THEN config
     ELSE IF HasTestFramework(scripts, packageJson) THEN Tests(config, "npm test")
     ELSE config

\* DetectFrameworkScripts also when a test command has been chosen already.
DetectFrameworkScriptsAlways(scripts, config) ==
  IF config.threw THEN config
  ELSE IF Truthy(Prop(scripts, "jest")) THEN Tests(config, "npm run jest")
  ELSE IF Truthy(Prop(scripts, "mocha")) THEN Tests(config, "npm run mocha")
  ELSE IF Truthy(Prop(scripts, "vitest")) THEN Tests(config, "npm run vitest")
  ELSE config

\* // Check for specific test framework scripts
DetectFrameworkScripts(scripts, config) ==
  IF config.threw \/ config.runTests THEN config
  ELSE IF Truthy(Prop(scripts, "jest")) THEN Tests(config, "npm run jest")
  ELSE IF Truthy(Prop(scripts, "mocha")) THEN Tests(config, "npm run mocha")
  ELSE IF Truthy(Prop(scripts, "vitest")) THEN Tests(config, "npm run vitest")
  ELSE config

\* // Build detection
DetectBuild(scripts, config) ==
  IF config.threw THEN config
  ELSE IF Truthy(Prop(scripts, "build"))
  THEN [config EXCEPT !.buildCommand = Str(<<"npm run build">>)]
  ELSE IF Truthy(Prop(scripts, "compile"))
  THEN [config EXCEPT !.buildCommand = Str(<<"npm run compile">>)]
  ELSE IF Truthy(Prop(scripts, "dist"))
  THEN [config EXCEPT !.buildCommand = Str(<<"npm run dist">>)]
  ELSE config

\* ['lint', 'format', 'typecheck', 'validate'].forEach(...) from name k on
UsefulScripts == <<"lint", "format", "typecheck", "validate">>
RECURSIVE DetectAdditional(_, _, _)
DetectAdditional(scripts, k, config) ==
  IF config.threw \/ k > Len(UsefulScripts) THEN config
  ELSE DetectAdditional(scripts, k + 1,
         IF Truthy(Prop(scripts, UsefulScripts[k]))
         THEN [config EXCEPT !.additionalScripts = Append(@, UsefulScripts[k])]
         ELSE config)

\* // Detect scripts
DetectScripts(packageJson, config) ==
  IF config.threw \/ Falsy(Prop(packageJson, "scripts")) THEN config
  ELSE DetectAdditional(Prop(packageJson, "scripts"), 1,
         DetectBuild(Prop(packageJson, "scripts"),
           DetectFrameworkScripts(Prop(packageJson, "scripts"),
             DetectTests(Prop(packageJson, "scripts"), packageJson, config))))

\* A file of the project: missing, one whose parsing or loading throws an
\* Error, one that holds a value, and a .js file whose loading throws null.
Missing == [exists |-> FALSE, loads |-> FALSE, value |-> Undefined, thrown |-> "none"]
Malformed == [exists |-> TRUE, loads |-> FALSE, value |-> Undefined, thrown |-> "Error"]
Holding(value) == [exists |-> TRUE, loads |-> TRUE, value |-> value, thrown |-> "none"]
ThrowsNull == [exists |-> TRUE, loads |-> FALSE, value |-> Undefined, thrown |-> "null"]

\* // Read package.json
ReadPackageJson(file, config) ==
  IF ~file.exists THEN config
  ELSE IF ~file.loads THEN [config EXCEPT !.threw = TRUE]
  ELSE DetectScripts(file.value,
         DetectNodeVersion(file.value, DetectNpmPackage(file.value, config)))

releaseConfigPaths ==
  <<"release.config.js", "release.config.json", ".releaserc.js", ".releaserc.json",
    ".releaserc">>

\* branch => typeof branch === 'string' ? branch : (typeof branch === 'object'
\* && branch.name) ? branch.name : 'main'; null is an object whose .name throws
BranchName(branch) ==
  IF branch.t = "string" THEN branch
  ELSE IF branch.t \in {"object", "array"} /\ Truthy(Prop(branch, "name"))
  THEN Prop(branch, "name")
  ELSE Str(<<"main">>)

\* releaseConfig.branches.map(...).filter(Boolean)
RECURSIVE BranchNames(_)
BranchNames(branches) ==
  IF branches = <<>> THEN <<>>
  ELSE (IF Truthy(BranchName(Head(branches))) THEN <<BranchName(Head(branches))>> ELSE <<>>)
       \o BranchNames(Tail(branches))

\* releaseConfig.branches.map throws: branches has no map, or an entry is null
MapThrows(branches) ==
  \/ ~IsArray(branches)
  \/ \E b \in 1..Len(branches.items) : branches.items[b] = Null

CouldNotParse(k) == <<"Warning: Could not parse ", releaseConfigPaths[k]>>

\* ReadReleaseConfigs going on to the next file after a file without a
\* branch list.
RECURSIVE ReadReleaseConfigsUntilBranches(_, _, _)
ReadReleaseConfigsUntilBranches(files, k, config) ==
  IF k > Len(releaseConfigPaths) THEN config
  ELSE IF ~files[k].exists THEN ReadReleaseConfigsUntilBranches(files, k + 1, config)
  ELSE IF ~files[k].loads /\ files[k].thrown = "null" THEN [config EXCEPT !.threw = TRUE]
  ELSE IF ~files[k].loads
  THEN ReadReleaseConfigsUntilBranches(files, k + 1,
         [config EXCEPT !.warnings = Append(@, CouldNotParse(k))])
  ELSE IF Falsy(files[k].value) \/ Falsy(Prop(files[k].value, "branches"))
  THEN ReadReleaseConfigsUntilBranches(files, k + 1, config)
  ELSE IF MapThrows(Prop(files[k].value, "branches"))
  THEN ReadReleaseConfigsUntilBranches(files, k + 1,
         [config EXCEPT !.warnings = Append(@, CouldNotParse(k))])
  ELSE [config EXCEPT !.branches = Arr(BranchNames(Prop(files[k].value, "branches").items))]

\* for (const configPath of releaseConfigPaths) from path k on.  In the
\* catch of a file, error.message of a thrown null throws in its turn.
RECURSIVE ReadReleaseConfigs(_, _, _)
ReadReleaseConfigs(files, k, config) ==
  IF k > Len(releaseConfigPaths) THEN config
  ELSE IF ~files[k].exists THEN ReadReleaseConfigs(files, k + 1, config)
  ELSE IF ~files[k].loads /\ files[k].thrown = "null" THEN [config EXCEPT !.threw = TRUE]
  ELSE IF ~files[k].loads
  THEN ReadReleaseConfigs(files, k + 1,
         [config EXCEPT !.warnings = Append(@, CouldNotParse(k))])
  ELSE IF Falsy(files[k].value) \/ Falsy(Prop(files[k].value, "branches"))
  THEN config
  ELSE IF MapThrows(Prop(files[k].value, "branches"))
  THEN ReadReleaseConfigs(files, k + 1,
         [config EXCEPT !.warnings = Append(@, CouldNotParse(k))])
  ELSE [config EXCEPT !.branches = Arr(BranchNames(Prop(files[k].value, "branches").items))]

\* ReadProject without the outer catch.
ReadProjectUncaught(project, config) ==
  IF config.threw THEN config
  ELSE ReadReleaseConfigs(project.releaseConfigs, 1, config)

\* The outer try and its catch: a throw while package.json is read skips the
\* release configuration files, and whatever was thrown is logged.  In the
\* result `threw` says whether the call itself threw.
ReadProject(project, config) ==
  LET Caught(c) ==
        IF c.threw
        THEN [c EXCEPT !.threw = FALSE,
                       !.warnings = Append(@, <<"Warning: Error detecting configuration">>)]
        ELSE c
  IN Caught(IF config.threw THEN config
            ELSE ReadReleaseConfigs(project.releaseConfigs, 1, config))

\* detectUserConfiguration(projectPath) for the project at projectPath
detectUserConfiguration(project) ==
  ReadProject(project, ReadPackageJson(project.packageJson, DetectedDefaults))

(***************************************************************************)
(* index.js: createGitHubWorkflow, createSmartWorkflow.  The workflow text *)
(* is the sequence of its lines, a line the sequence of its pieces.        *)
(***************************************************************************)
\* `${v}` in a template literal
Template(v) ==
  IF v.t = "string" THEN v.s
  ELSE IF v.t = "boolean" THEN <<IF v.b THEN "true" ELSE "false">>
  ELSE IF v.t = "number" THEN v.s
  ELSE IF v.t = "array" THEN <<"[array]">>
  ELSE IF v.t = "object" THEN <<"[object Object]">>
  ELSE <<v.t>>

\* detectedConfig.prop: undefined for every prop of {} (no auto-detection)
NotDetected == [t |-> "object"]
Detected(detectedConfig, prop) ==
  IF prop \notin DOMAIN detectedConfig THEN Undefined
  ELSE IF prop = "runTests" THEN Boolean(detectedConfig.runTests)
  ELSE detectedConfig[prop]

\* const { name = 'Release', branches = ..., ... } = opts
Setting(opts, detectedConfig, prop) ==
  IF Prop(opts, prop) # Undefined THEN Prop(opts, prop)
  ELSE IF prop = "name" THEN Str(<<"Release">>)
  ELSE IF prop = "branches" THEN Or(Detected(detectedConfig, prop), Arr(<<Str(<<"main">>)>>))
  ELSE IF prop = "nodeVersion"
  THEN Or(Detected(detectedConfig, prop), Str(<<"l", "t", "s", "/", "*">>))
  ELSE IF prop = "runTests"
  THEN (IF Detected(detectedConfig, prop) # Undefined THEN Detected(detectedConfig, prop)
        ELSE Boolean(FALSE))
  ELSE IF prop = "testCommand" THEN Or(Detected(detectedConfig, prop), Str(<<"npm test">>))
  ELSE IF prop = "buildCommand" THEN Or(Detected(detectedConfig, prop), Null)
  ELSE IF prop = "additionalSteps" THEN Arr(<<>>)
  ELSE [t |-> "object", entries |-> <<<<"contents", Str(<<"write">>)>>,
                                     <<"id-token", Str(<<"write">>)>>>>]

\* branchesArray.map(b => `"${b}"`).join(', ')
RECURSIVE Quoted(_)
Quoted(branchesArray) ==
  IF branchesArray = <<>> THEN <<>>
  ELSE <<"\"">> \o Template(Head(branchesArray)) \o <<"\"">>
       \o (IF Len(branchesArray) > 1 THEN <<", ">> ELSE <<>>)
       \o Quoted(Tail(branchesArray))
BranchesStr(branches) == Quoted(IF IsArray(branches) THEN branches.items ELSE <<branches>>)

StepName(name) == <<"      - name: ">> \o name
Run(command) == <<"        run: ">> \o command
Blank == <<>>

FirstSteps(nodeVersion) ==
  <<StepName(<<"Checkout">>), <<"        uses: actions/checkout@v4">>,
    <<"        with:">>, <<"          fetch-depth: 0">>, Blank,
    StepName(<<"Setup Node.js">>), <<"        uses: actions/setup-node@v4">>,
    <<"        with:">>,
    <<"          node-version: \"">> \o Template(nodeVersion) \o <<"\"">>, Blank,
    StepName(<<"Install dependencies">>), Run(<<"npm ci">>)>>

\* The Build step pushed whether or not a build command is set.
BuildStepAlways(buildCommand) ==
  <<Blank, StepName(<<"Build">>), Run(Template(buildCommand))>>

\* if (buildCommand) { ... }
BuildStep(buildCommand) ==
  IF Truthy(buildCommand)
  THEN <<Blank, StepName(<<"Build">>), Run(Template(buildCommand))>> ELSE <<>>

\* if (runTests) { ... }
TestStep(runTests, testCommand) ==
  IF Truthy(runTests)
  THEN <<Blank, StepName(<<"Run tests">>), Run(Template(testCommand))>> ELSE <<>>

\* Object.entries(o).forEach(([key, value]) => steps.push(`          ${key}: ${value}`))
RECURSIVE EntryLines(_, _)
EntryLines(indent, entries) ==
  IF entries = <<>> THEN <<>>
  ELSE <<<<indent, Head(entries)[1], ": ">> \o Template(Head(entries)[2])>>
       \o EntryLines(indent, Tail(entries))
Entries2(o) == IF o.t = "object" /\ "entries" \in DOMAIN o THEN o.entries ELSE <<>>

\* The lines of one custom step; step.name of null throws.
StepThrows(step) == step.t \in {"null", "undefined"}
CustomStep(step) ==
  IF step.t = "string" THEN <<StepName(step.s), Run(step.s), Blank>>
  ELSE <<StepName(Template(Prop(step, "name")))>>
       \o (IF Truthy(Prop(step, "uses"))
           THEN <<<<"        uses: ">> \o Template(Prop(step, "uses"))>>
                \o (IF Truthy(Prop(step, "with"))
                    THEN <<<<"        with:">>>>
                         \o EntryLines("          ", Entries2(Prop(step, "with")))
                    ELSE <<>>)
           ELSE IF Truthy(Prop(step, "run"))
           THEN <<Run(Template(Prop(step, "run")))>>
           ELSE <<>>)
       \o (IF Truthy(Prop(step, "env"))
           THEN <<<<"        env:">>>> \o EntryLines("          ", Entries2(Prop(step, "env")))
           ELSE <<>>)
       \o <<Blank>>

\* additionalSteps.forEach(step => ...)
RECURSIVE CustomSteps(_)
CustomSteps(additionalSteps) ==
  IF additionalSteps = <<>> THEN <<>>
  ELSE CustomStep(Head(additionalSteps)) \o CustomSteps(Tail(additionalSteps))

\* additionalSteps.length > 0 and additionalSteps.forEach throw
StepsThrow(additionalSteps) ==
  \/ additionalSteps.t = "null"
  \/ additionalSteps.t = "string" /\ additionalSteps.s # <<>>
  \/ /\ IsArray(additionalSteps)
     /\ \E k \in 1..Len(additionalSteps.items) : StepThrows(additionalSteps.items[k])

\* // Add additional custom steps
AdditionalSteps(additionalSteps) ==
  IF IsArray(additionalSteps) /\ additionalSteps.items # <<>>
  THEN <<Blank>> \o CustomSteps(additionalSteps.items) ELSE <<>>

ReleaseStep ==
  <<Blank, StepName(<<"Release">>), Run(<<"npm run semantic-release">>),
    <<"        env:">>, <<"          GITHUB_TOKEN: ${{ secrets.GITHUB_TOKEN }}">>>>

\* permissionsBlock
PermissionsBlock(permissions) ==
  IF Truthy(permissions) /\ Entries2(permissions) # <<>>
  THEN <<<<"    permissions:">>>> \o EntryLines("      ", Entries2(permissions)) ELSE <<>>

\* The workflow text from the settings.
Workflow(opts, detectedConfig) ==
  IF StepsThrow(Setting(opts, detectedConfig, "additionalSteps"))
  THEN [threw |-> TRUE, text |-> <<>>]
  ELSE [threw |-> FALSE,
        text |->
          <<<<"name: ">> \o Template(Setting(opts, detectedConfig, "name")), Blank,
            <<"on:">>, <<"  push:">>,
            <<"    branches: [">> \o BranchesStr(Setting(opts, detectedConfig, "branches"))
              \o <<"]">>,
            Blank, <<"jobs:">>, <<"  release:">>, <<"    runs-on: ubuntu-latest">>, Blank>>
          \o PermissionsBlock(Setting(opts, detectedConfig, "permissions"))
          \o <<Blank, <<"    steps:">>>>
          \o FirstSteps(Setting(opts, detectedConfig, "nodeVersion"))
          \o BuildStep(Setting(opts, detectedConfig, "buildCommand"))
          \o TestStep(Setting(opts, detectedConfig, "runTests"),
                      Setting(opts, detectedConfig, "testCommand"))
          \o AdditionalSteps(Setting(opts, detectedConfig, "additionalSteps"))
          \o ReleaseStep
          \o <<Blank>>]

\* createGitHubWorkflow(options) in the project at options.projectPath (or
\* the working directory)
createGitHubWorkflow(options, project) ==
  IF Truthy(options) /\ Prop(options, "autoDetect") = Boolean(FALSE)
  THEN Workflow(options, NotDetected)
  ELSE Workflow(IF Truthy(options) THEN options ELSE [t |-> "object"],
                detectUserConfiguration(project))

\* { name: 'Release', branches: detectedConfig.branches, ..., ...overrides }
Override(overrides, detectedConfig, prop) ==
  IF Prop(overrides, prop) # Undefined THEN Prop(overrides, prop)
  ELSE IF prop = "name" THEN Str(<<"Release">>)
  ELSE IF prop \in {"branches", "nodeVersion", "runTests", "testCommand", "buildCommand"}
  THEN Detected(detectedConfig, prop)
  ELSE Undefined

\* // Add smart additional steps based on detected scripts
SmartSteps(additionalScripts) ==
  (IF \E k \in 1..Len(additionalScripts) : additionalScripts[k] = "lint"
   THEN <<[t |-> "object", name |-> Str(<<"Lint code">>),
           run |-> Str(<<"npm run lint">>)]>>
   ELSE <<>>)
  \o (IF \E k \in 1..Len(additionalScripts) : additionalScripts[k] = "typecheck"
      THEN <<[t |-> "object", name |-> Str(<<"Type check">>),
              run |-> Str(<<"npm run typecheck">>)]>>
      ELSE <<>>)

\* workflowOptions of createSmartWorkflow, with autoDetect: false
WorkflowOptions(overrides, detectedConfig) ==
  [t |-> "object",
   name |-> Override(overrides, detectedConfig, "name"),
   branches |-> Override(overrides, detectedConfig, "branches"),
   nodeVersion |-> Override(overrides, detectedConfig, "nodeVersion"),
   runTests |-> Override(overrides, detectedConfig, "runTests"),
   testCommand |-> Override(overrides, detectedConfig, "testCommand"),
   buildCommand |-> Override(overrides, detectedConfig, "buildCommand"),
   permissions |-> Prop(overrides, "permissions"),
   additionalSteps |->
     IF Falsy(Prop(overrides, "additionalSteps")) /\ detectedConfig.additionalScripts # <<>>
     THEN Arr(SmartSteps(detectedConfig.additionalScripts))
     ELSE Prop(overrides, "additionalSteps"),
   autoDetect |-> Boolean(FALSE)]

\* createSmartWorkflow(overrides) in the project of the working directory;
\* overrides.additionalSteps of null throws.
createSmartWorkflow(overrides, project) ==
  IF overrides.t = "null" THEN [threw |-> TRUE, text |-> <<>>]
  ELSE createGitHubWorkflow(WorkflowOptions(overrides, detectUserConfiguration(project)),
                            project)

\* Projects.  Manifests vary in their test-related scripts and development
\* dependencies, or in their name, privacy, engines and other scripts.
With(obj, name, v) == IF name = "" THEN obj ELSE obj @@ (name :> v)
Manifest(scripts, devDependencies, name, private, publishConfig, engines) ==
  [t |-> "object", scripts |-> scripts, devDependencies |-> devDependencies,
   name |-> name, private |-> private, publishConfig |-> publishConfig,
   engines |-> engines]
Jest == Str(<<"jest">>)
TestScripts ==
  {Undefined, Jest, NpmPlaceholder, Str(<<"exit 1">>),
   Str(<<"echo ", "no test specified">>), Num}
DevDependencies ==
  {Undefined} \cup {With([t |-> "object"], d, Str(<<"^", "1">>)) :
                      d \in {"jest", "cypress", "lodash"}}
TestManifests ==
  {Manifest(With(With([t |-> "object", test |-> test], ci, Jest), runner, Jest), deps,
            Undefined, Undefined, Undefined, Undefined) :
     test \in TestScripts, ci \in {"", "test:ci", "test:prod", "test:production"},
     runner \in {"", "jest", "mocha", "vitest", "ava"}, deps \in DevDependencies}
Engines(node) == [t |-> "object", node |-> node]
OtherManifests ==
  {Manifest(With(With([t |-> "object"], build, Jest), useful, Jest), Undefined,
            Undefined, Undefined, Undefined, Undefined) :
     build \in {"", "build", "compile", "dist"},
     useful \in {"", "lint", "format", "typecheck", "validate"}}
  \cup {Manifest([t |-> "object", build |-> Jest, dist |-> Jest, validate |-> Jest,
                  lint |-> Jest], Undefined, name, private, publishConfig, engines) :
          name \in {Undefined, Str(<<"@", "a">>), Str(<<"a">>), Num},
          private \in {Undefined, Boolean(TRUE)},
          publishConfig \in {Undefined, [t |-> "object"]},
          engines \in {Undefined, Engines(Num), Engines(Str(<<">", "=", "1", "8">>)),
                       Engines(Str(<<"^", "1", "8", ".", "0">>)),
                       Engines(Str(<<"1", "8">>))}}
  \cup {Manifest([t |-> "object", test |-> Jest], With([t |-> "object"], "jest", Jest),
                  Undefined, Undefined, Undefined, Engines(Num))}
\* Manifests that differ in engines.node only: '>18', '<20', '~20', '^20',
\* '>=18.0.0', '>=18 <20', '20.x', ''.
NodeRanges ==
  {<<">", "1", "8">>, <<"<", "2", "0">>, <<"~", "2", "0">>, <<"^", "2", "0">>,
   <<">", "=", "1", "8", ".", "0", ".", "0">>,
   <<">", "=", "1", "8", " ", "<", "2", "0">>, <<"2", "0", ".", "x">>, <<>>}
EngineManifests ==
  {Manifest(Undefined, Undefined, Undefined, Undefined, Undefined, Engines(Str(node))) :
     node \in NodeRanges}
  \cup {Manifest(Undefined, Undefined, Undefined, Undefined, Undefined, [t |-> "object"])}
JestManifest ==
  Manifest([t |-> "object", test |-> Jest], With([t |-> "object"], "jest", Jest),
           Undefined, Undefined, Undefined, Undefined)
RichPackageJson ==
  {Holding(Null), Holding(Num)} \cup {Holding(m) : m \in TestManifests \cup OtherManifests \cup EngineManifests}
CorePackageJson == {Missing, Malformed, Holding(JestManifest)}

\* Release configuration files.  In the core family the file at position k
\* is missing, malformed, without branches, or names the one branch 'b<k>';
\* in the rich family the first file holds any value and the second is
\* missing or names 'b2'; the first may also throw null when loaded.
MaxBranches == 2
Branches(list) == [t |-> "object", branches |-> list]
BranchesAt(k) == Branches(Arr(<<Str(<<"b", N(k)>>)>>))
CoreReleaseConfigs ==
  [1..Len(releaseConfigPaths) -> {"missing", "malformed", "plain", "branches"}]
CoreFile(kind, k) ==
  IF kind = "missing" THEN Missing
  ELSE IF kind = "malformed" THEN Malformed
  ELSE IF kind = "plain" THEN Holding([t |-> "object"])
  ELSE Holding(BranchesAt(k))
BranchEntries ==
  {Str(<<"dev">>), Str(<<>>), Null, Num, [t |-> "object"],
   [t |-> "object", name |-> Str(<<"beta">>), prerelease |-> Str(<<"beta">>)]}
ReleaseValues ==
  {Null, Num, Branches(Str(<<"main">>))}
  \cup {Branches(Arr(l)) : l \in UNION {[1..n -> BranchEntries] : n \in 0..MaxBranches}}
ReleaseConfigs ==
  {[k \in 1..Len(releaseConfigPaths) |-> CoreFile(f[k], k)] : f \in CoreReleaseConfigs}
  \cup {[k \in 1..Len(releaseConfigPaths) |->
           IF k = 1 THEN first ELSE IF k = 2 THEN second ELSE Missing] :
          first \in {ThrowsNull} \cup {Holding(v) : v \in ReleaseValues},
          second \in {Missing, Holding(BranchesAt(2))}}
NoReleaseConfig == [k \in 1..Len(releaseConfigPaths) |-> Missing]
OnlyFirst ==
  [k \in 1..Len(releaseConfigPaths) |->
     CoreFile(IF k = 1 THEN "branches" ELSE "missing", k)]
Project(packageJson, releaseConfigs) ==
  [packageJson |-> packageJson, releaseConfigs |-> releaseConfigs]
Projects ==
  {Project(p, f) : p \in CorePackageJson, f \in ReleaseConfigs}
  \cup {Project(p, f) : p \in RichPackageJson, f \in {NoReleaseConfig, OnlyFirst}}

\* Workflow options and the projects the workflow functions run in.  A
\* custom step is a command, an object with run, uses/with or env, or not
\* a step at all.
MaxSteps == 2
Wf(name, branches, nodeVersion, runTests, testCommand, buildCommand, additionalSteps,
   permissions, autoDetect) ==
  [t |-> "object", name |-> name, branches |-> branches, nodeVersion |-> nodeVersion,
   runTests |-> runTests, testCommand |-> testCommand, buildCommand |-> buildCommand,
   additionalSteps |-> additionalSteps, permissions |-> permissions,
   autoDetect |-> autoDetect]
Step(name, run, uses, with, env) ==
  [t |-> "object", name |-> name, run |-> run, uses |-> uses, with |-> with, env |-> env]
Entry(key, value) == [t |-> "object", entries |-> <<<<key, Str(<<value>>)>>>>]
CoreSteps ==
  {Str(<<"npm run lint">>),
   Step(Str(<<"Deploy">>), Str(<<"npm run deploy">>), Undefined, Undefined, Undefined)}
RichSteps ==
  CoreSteps
  \cup {Step(Str(<<"Cache">>), Undefined, Str(<<"actions/cache@v4">>),
              Entry("path", "~/.npm"), Undefined),
        Step(Str(<<"E2E">>), Str(<<"npm run e2e">>), Undefined, Undefined,
             Entry("CI", "true")),
        Num, Null}
UnitTests == Str(<<"npm run test:unit">>)
BuildProd == Str(<<"npm run build:prod">>)
WorkflowOptionValues ==
  {Undefined, Null}
  \cup {Wf(Undefined, Undefined, Undefined, runTests, testCommand, buildCommand,
            Undefined, Undefined, autoDetect) :
          runTests \in {Undefined, Boolean(TRUE), Boolean(FALSE)},
          testCommand \in {Undefined, Null, Str(<<>>), UnitTests},
          buildCommand \in {Undefined, Null, BuildProd},
          autoDetect \in {Undefined, Boolean(FALSE)}}
  \cup {Wf(Undefined, Undefined, Undefined, runTests, Undefined, buildCommand,
            additionalSteps, Undefined, autoDetect) :
          runTests \in {Undefined, Boolean(TRUE)},
          buildCommand \in {Undefined, BuildProd},
          additionalSteps \in {Null, Num, Str(<<"npm run lint">>)}
                              \cup {Arr(l) : l \in Lists(RichSteps, CoreSteps, MaxSteps)},
          autoDetect \in {Undefined, Boolean(FALSE)}}
  \cup {Wf(name, branches, nodeVersion, Undefined, Undefined, Undefined, Undefined,
            permissions, Undefined) :
          name \in {Undefined, Str(<<"Publish">>)},
          branches \in {Undefined, Str(<<"main">>),
                        Arr(<<Str(<<"main">>), Str(<<"next">>)>>)},
          nodeVersion \in {Undefined, Str(<<"2", "0">>)},
          permissions \in {Undefined, Null, Entry("contents", "read")}}
Scripts(test, build, lint, typecheck) ==
  [t |-> "object", test |-> test, build |-> build, lint |-> lint,
   typecheck |-> typecheck]
WorkflowManifests ==
  {JestManifest,
   Manifest(Scripts(NpmPlaceholder, Undefined, Undefined, Undefined), Undefined,
            Undefined, Undefined, Undefined, Undefined),
   Manifest(Scripts(Undefined, Jest, Jest, Jest), Undefined,
            Undefined, Undefined, Undefined, Undefined),
   Manifest(With(Scripts(Jest, Jest, Jest, Undefined), "test:ci", Jest), Undefined,
            Undefined, Undefined, Undefined, Engines(Str(<<"1", "8">>)))}
WorkflowProjects ==
  {Project(p, f) : p \in {Missing} \cup {Holding(m) : m \in WorkflowManifests},
                   f \in {NoReleaseConfig, OnlyFirst}}


\* The configuration file named on the command line: missing, failing to
\* load, or exporting a configuration.
ConfigModule(exists, loads, exports) ==
  [exists |-> exists, loads |-> loads, exports |-> exports]
ConfigModules ==
  {ConfigModule(FALSE, FALSE, Undefined), ConfigModule(TRUE, FALSE, Undefined)}
  \cup {ConfigModule(TRUE, TRUE, c) : c \in StructuralConfigs \cup FileRuleConfigs}

InitDisks ==
  {[p \in Paths |-> IF p = <<"f1">> THEN File(c) ELSE f] :
     c \in Texts(MaxLen - 1), f \in {NoFile, File(<<"0">>)}}

(***************************************************************************)
(* The state machine.  `call` is the call in progress at its return: one   *)
(* call runs at a time, and the next starts after it has returned.         *)
(***************************************************************************)
NoCall == [op |-> "none"]

Init ==
  /\ fs \in InitDisks
  /\ call = NoCall

\* await updateVersionPlugin.prepare(pluginConfig, context)
Prepare ==
  /\ call = NoCall
  /\ \E c \in PrepareCalls :
       LET Returns(r) ==
             /\ \A p \in Paths : Len(r.fs[p].data) <= MaxLen
             /\ fs' = r.fs
             /\ call' = [op |-> "prepare", pluginConfig |-> c[1], version |-> c[2],
                         before |-> fs, result |-> r]
       IN Returns(prepare(c[1], c[2], fs))

\* The call has returned to its caller.
Return ==
  /\ call # NoCall
  /\ call' = NoCall
  /\ UNCHANGED fs

\* const result = validateConfig(config, options)
Validate ==
  /\ call = NoCall
  /\ \E config \in StructuralConfigs \cup FileRuleConfigs, options \in ValidateOptions :
       /\ config \in FileRuleConfigs => Opt(options, "checkPlugins", TRUE)
       /\ LET Returns(r) ==
                /\ fs' = r.fs
                /\ call' = [op |-> "validateConfig", config |-> config,
                            options |-> options, before |-> fs, result |-> r]
          IN Returns(validateConfig(config, options, fs))

Next == Prepare \/ Return

Spec == Init /\ [][Next]_vars

\* The validation calls on their own.
NextValidate == Validate \/ Return

SpecValidate == Init /\ [][NextValidate]_vars

\* node validate-config.js [config-file-path]
Cli ==
  /\ call = NoCall
  /\ \E module \in ConfigModules :
       LET Exits(r) ==
             /\ fs' = r.fs
             /\ call' = [op |-> "main", module |-> module, before |-> fs, result |-> r]
       IN Exits(main(module, fs))

\* const config = buildSemanticReleaseConfig(options)
Build ==
  /\ call = NoCall
  /\ \E options \in BuildOptions :
       call' = [op |-> "buildSemanticReleaseConfig", options |-> options,
                before |-> fs, result |-> buildSemanticReleaseConfig(options)]
  /\ UNCHANGED fs

\* The builder calls on their own.
NextBuild == Build \/ Return

SpecBuild == Init /\ [][NextBuild]_vars

\* const detected = detectUserConfiguration(projectPath)
Detect ==
  /\ call = NoCall
  /\ \E project \in Projects :
       call' = [op |-> "detectUserConfiguration", project |-> project,
                before |-> fs, result |-> detectUserConfiguration(project)]
  /\ UNCHANGED fs

\* The detection calls on their own.
NextDetect == Detect \/ Return

SpecDetect == Init /\ [][NextDetect]_vars

\* const workflow = createGitHubWorkflow(options)
GitHubWorkflow ==
  /\ call = NoCall
  /\ \E options \in WorkflowOptionValues, project \in WorkflowProjects :
       call' = [op |-> "createGitHubWorkflow", options |-> options, project |-> project,
                before |-> fs, result |-> createGitHubWorkflow(options, project)]
  /\ UNCHANGED fs

\* const workflow = createSmartWorkflow(overrides)
SmartWorkflow ==
  /\ call = NoCall
  /\ \E overrides \in WorkflowOptionValues \ {Undefined}, project \in WorkflowProjects :
       call' = [op |-> "createSmartWorkflow", options |-> overrides, project |-> project,
                before |-> fs, result |-> createSmartWorkflow(overrides, project)]
  /\ UNCHANGED fs

\* The workflow generators on their own.
NextWorkflow == GitHubWorkflow \/ SmartWorkflow \/ Return

SpecWorkflow == Init /\ [][NextWorkflow]_vars

\* The runs of the command-line validator on their own.
NextCli == Cli \/ Return

SpecCli == Init /\ [][NextCli]_vars

(***************************************************************************)
(* Vocabulary of the live-patch claims.                                    *)
(***************************************************************************)
IsPrepare == call.op = "prepare"
HasFiles ==
  IsPrepare /\ Truthy(call.pluginConfig.files) /\ IsArray(call.pluginConfig.files)
Files == call.pluginConfig.files.items
Res == call.result

\* The patterns a rule asks for, whichever shape it has.
PatternsOf(rule) ==
  IF Truthy(rule.patterns) /\ IsArray(rule.patterns) THEN rule.patterns.items
  ELSE <<Obj(rule.pattern, rule.replacement)>>

\* A rule with a path and one of the two shapes.
WellShaped(rule) ==
  /\ rule.t = "object"
  /\ rule.path.t = "string" /\ rule.path.s # <<>>
  /\ \/ Truthy(rule.patterns) /\ IsArray(rule.patterns)
     \/ Truthy(rule.pattern) /\ Truthy(rule.replacement)

\* A pattern with a usable regex and a non-empty replacement text.
WellFormedPattern(po) ==
  /\ po.t = "object"
  /\ Truthy(po.regex) /\ ~RegexThrows(po.regex)
  /\ po.replacement.t = "string" /\ po.replacement.s # <<>>

\* A rule whose patterns live patch gets to apply to an existing file.
Applicable(rule, disk) ==
  /\ WellShaped(rule)
  /\ existsSync(disk, rule.path.s)
  /\ \A i \in 1..Len(PatternsOf(rule)) : WellFormedPattern(PatternsOf(rule)[i])

\* The text in memory after patterns 1..i of pats.
RECURSIVE InMemory(_, _, _, _, _)
InMemory(pats, i, content, version, datetime) ==
  IF i = 0 THEN content
  ELSE StringReplace(InMemory(pats, i - 1, content, version, datetime),
                     ToRegexObj(pats[i].regex),
                     FinalReplacement(pats[i].replacement.s, version, datetime))

\* Some pattern has no match in the text it is applied to.
Misses(pats, content, version, datetime) ==
  \E i \in 1..Len(pats) :
    ~Matches(InMemory(pats, i - 1, content, version, datetime),
             ToRegexObj(pats[i].regex))

\* The disk after rules 1..k of files, and whether they all succeeded.
RECURSIVE DiskAfter(_, _, _, _, _)
DiskAfter(files, k, version, datetime, disk) ==
  IF k = 0 THEN disk
  ELSE updateFile(files[k], version, datetime,
                  [fs |-> DiskAfter(files, k - 1, version, datetime, disk),
                   log |-> <<>>]).fs

AllOk(files, k, version, datetime, disk) ==
  \A i \in 1..k :
    updateFile(files[i], version, datetime,
               [fs |-> DiskAfter(files, i - 1, version, datetime, disk), log |-> <<>>]).ok

\* The disk when prepare reaches rule k, and whether it reaches it.
DiskAt(k) == DiskAfter(Files, k - 1, call.version, Res.datetime, call.before)
Reaches(k) == AllOk(Files, k - 1, call.version, Res.datetime, call.before)

Writes(log) == {i \in 1..Len(log) : log[i][1] = "write"}
Probes(log) == {i \in 1..Len(log) : log[i][1] = "exists"}

(***************************************************************************)
(* C1: when prepare reaches a rule of which some pattern has no match in   *)
(* the text it is applied to, prepare rejects at that rule with an error   *)
(* and the disk is as that rule found it, also when earlier patterns of    *)
(* the rule had matched and been replaced in memory.                       *)
(***************************************************************************)
C1_UnmatchedPatternLeavesFile ==
  HasFiles =>
    \A k \in 1..Len(Files) :
      ( /\ Reaches(k)
        /\ Applicable(Files[k], DiskAt(k))
        /\ Misses(PatternsOf(Files[k]), DiskAt(k)[Files[k].path.s].data,
                  call.version, Res.datetime) )
      => /\ Res.status = "rejected"
         /\ Res.at = k
         /\ Res.err.name = "Error"
         /\ Mentions(Res.err.message, "Pattern did not match any content in ")
         /\ fs = DiskAt(k)
         /\ fs[Files[k].path.s] = DiskAt(k)[Files[k].path.s]
         /\ (k = 1 => fs = call.before /\ Writes(Res.log) = {})

\* The first rule has two patterns, the first changed the text in memory, the
\* second has no match, and the file is as before.
C1_Witness ==
  /\ HasFiles
  /\ Len(Files) = 1
  /\ Applicable(Files[1], call.before)
  /\ Len(PatternsOf(Files[1])) = 2
  /\ LET c == call.before[Files[1].path.s].data
         c1 == InMemory(PatternsOf(Files[1]), 1, c, call.version, Res.datetime)
     IN /\ c1 # c
        /\ ~Matches(c1, ToRegexObj(PatternsOf(Files[1])[2].regex))
  /\ Res.status = "rejected"
  /\ fs = call.before

\* A replacement text with {version} and {datetime} replaced by the values.
RECURSIVE Substituted(_, _, _)
Substituted(repl, version, datetime) ==
  IF repl = <<>> THEN <<>>
  ELSE (IF Head(repl) = "{version}" THEN version
        ELSE IF Head(repl) = "{datetime}" THEN datetime
        ELSE <<Head(repl)>>) \o Substituted(Tail(repl), version, datetime)

\* The text after patterns 1..i of pats, applied in order to content.
RECURSIVE Expected(_, _, _, _, _)
Expected(pats, i, content, version, datetime) ==
  IF i = 0 THEN content
  ELSE StringReplace(Expected(pats, i - 1, content, version, datetime),
                     ToRegexObj(pats[i].regex),
                     Substituted(pats[i].replacement.s, version, datetime))

NoDateToken(pats) ==
  \A i \in 1..Len(pats) : \A j \in 1..Len(pats[i].replacement.s) :
    pats[i].replacement.s[j] # "{date}"

RECURSIVE Documented(_, _, _)
Documented(repl, version, datetime) ==
  IF repl = <<>> THEN <<>>
  ELSE IF Len(repl) >= 2 /\ repl[1] = "$" /\ repl[2] = "{version}"
  THEN version \o Documented(SubSeq(repl, 3, Len(repl)), version, datetime)
  ELSE IF Len(repl) >= 2 /\ repl[1] = "$" /\ repl[2] = "{date}"
  THEN datetime \o Documented(SubSeq(repl, 3, Len(repl)), version, datetime)
  ELSE (IF Head(repl) = "{version}" THEN version
        ELSE IF Head(repl) = "{datetime}" THEN datetime
        ELSE <<Head(repl)>>) \o Documented(Tail(repl), version, datetime)

(***************************************************************************)
(* C3: the replacement text live patch uses has each of {version},         *)
(* ${version}, {datetime} and ${date} replaced completely by its value, so *)
(* a rule of one pattern whose replacement text is made of tokens only     *)
(* writes a text without any `$`.                                          *)
(***************************************************************************)
C3_TokensReplacedCompletely ==
  HasFiles =>
    \A k \in 1..Len(Files) :
      Reaches(k + 1) =>
        \A i \in 1..Len(PatternsOf(Files[k])) :
          LET po == PatternsOf(Files[k])[i]
          IN /\ FinalReplacement(po.replacement.s, call.version, Res.datetime)
                  = Documented(po.replacement.s, call.version, Res.datetime)
             /\ (po.replacement \in {ReplDollarVersion, ReplDollarDate}
                   /\ Len(PatternsOf(Files[k])) = 1 /\ k = Len(Files))
                => ~Includes(fs[Files[k].path.s].data, <<"$">>)

(***************************************************************************)
(* C4: prepare takes the files in order and stops at the first whose       *)
(* update fails: it rejects with that error, nothing of a later file is    *)
(* probed, read or written, and the files updated before stay written.     *)
(***************************************************************************)
C4_FailFast ==
  HasFiles =>
    LET Fails(k) == ~updateFile(Files[k], call.version, Res.datetime,
                                [fs |-> DiskAt(k), log |-> <<>>]).ok
        failing == {k \in 1..Len(Files) : Reaches(k) /\ Fails(k)}
    IN IF failing = {}
       THEN /\ Res.status = "resolved"
            /\ fs = DiskAt(Len(Files) + 1)
            /\ Len(Res.results) = Len(Files)
            /\ Cardinality(Writes(Res.log)) = Len(Files)
       ELSE \A k \in failing :
              /\ Res.status = "rejected"
              /\ Res.at = k
              /\ Res.err = updateFile(Files[k], call.version, Res.datetime,
                                      [fs |-> DiskAt(k), log |-> <<>>]).err
              /\ fs = DiskAt(k)
              /\ Len(Res.results) = k - 1
              /\ \A i \in 1..(k - 1) : Res.results[i].path = Files[i].path.s
              /\ Cardinality(Writes(Res.log)) = k - 1
              /\ Cardinality(Probes(Res.log)) <= k
              /\ \A i \in 1..Len(Res.log) :
                   \E j \in 1..k : /\ WellShaped(Files[j])
                                   /\ Files[j].path.s = Res.log[i][2]

\* Three files: the first was written, the second failed, the third, which
\* would have been updated, was not touched.
C4_Witness ==
  /\ HasFiles
  /\ Len(Files) = 3
  /\ Res.status = "rejected"
  /\ Res.at = 2
  /\ fs # call.before
  /\ WellShaped(Files[3])
  /\ Files[3].path # Files[1].path /\ Files[3].path # Files[2].path
  /\ updateFile(Files[3], call.version, Res.datetime, [fs |-> fs, log |-> <<>>]).ok
  /\ fs[Files[3].path.s] = call.before[Files[3].path.s]

(***************************************************************************)
(* C5 as stated: prepare rejects mentioning 'requires "files" array' when  *)
(* the configuration has no files array, and mentioning 'File not found'   *)
(* when a rule's target file does not exist; in both cases the disk is as  *)
(* before the call.                                                        *)
(***************************************************************************)
C5_AsStated ==
  IsPrepare =>
    /\ ~HasFiles =>
         /\ Res.status = "rejected"
         /\ Mentions(Res.err.message, "requires \"files\" array")
         /\ fs = call.before
    /\ ( /\ HasFiles
         /\ \E k \in 1..Len(Files) :
              /\ Files[k].t = "object" /\ Files[k].path.t = "string"
              /\ ~existsSync(call.before, Files[k].path.s) )
       => /\ Res.status = "rejected"
          /\ Mentions(Res.err.message, "File not found")
          /\ fs = call.before

(***************************************************************************)
(* C5 amended: prepare rejects mentioning 'requires "files" array' when    *)
(* the configuration has no files array, touching no file; and when it     *)
(* reaches a rule with a path and one of the two shapes whose target file  *)
(* does not exist it rejects at that rule mentioning 'File not found',     *)
(* creating no file and leaving the disk as the earlier rules left it.     *)
(***************************************************************************)
C5_PreconditionFailures ==
  IsPrepare =>
    /\ ~HasFiles =>
         /\ Res.status = "rejected"
         /\ Mentions(Res.err.message, "requires \"files\" array")
         /\ fs = call.before
         /\ Res.log = <<>>
    /\ HasFiles =>
         \A k \in 1..Len(Files) :
           ( /\ Reaches(k)
             /\ WellShaped(Files[k])
             /\ ~existsSync(DiskAt(k), Files[k].path.s) )
           => /\ Res.status = "rejected"
              /\ Res.at = k
              /\ Mentions(Res.err.message, "File not found")
              /\ fs = DiskAt(k)
              /\ \A p \in Paths : fs[p].exists = call.before[p].exists
              /\ (k = 1 => fs = call.before)

\* The second rule's file is missing and the first rule's file was written.
C5_Witness ==
  /\ HasFiles
  /\ Len(Files) = 2
  /\ Res.status = "rejected"
  /\ Res.at = 2
  /\ Mentions(Res.err.message, "File not found")
  /\ fs # call.before

(***************************************************************************)
(* Vocabulary of the validation claims.                                    *)
(***************************************************************************)
IsValidate == call.op = "validateConfig"
OfObject == IsValidate /\ call.config.t = "object"
Returned == IsValidate /\ ~Res.threw
Strict == Opt(call.options, "strict", FALSE)
Checked == Opt(call.options, "checkPlugins", TRUE)
HasError(phrase) == \E e \in 1..Len(Res.errors) : Mentions(Res.errors[e], phrase)

\* The update-version entries of the validated configuration, and the file
\* rules of entry i.
Entries ==
  IF OfObject /\ Truthy(call.config.plugins) /\ IsArray(call.config.plugins)
  THEN UpdateVersionPlugins(call.config.plugins.items, 1) ELSE <<>>
RulesOf(i) ==
  LET files == Prop(At(Entries[i], 2), "files")
  IN IF IsArray(files) THEN files.items ELSE <<>>

HasPatterns(rule) == Truthy(rule.patterns) /\ IsArray(rule.patterns)
HasSimpleFormat(rule) == Truthy(rule.pattern) /\ Truthy(rule.replacement)

(***************************************************************************)
(* C6: for a configuration object without `plugins`, validateConfig        *)
(* returns isValid = false and an error that mentions plugins, whatever    *)
(* the options and the value of branches.                                  *)
(***************************************************************************)
C6_MissingPluginsInvalid ==
  (OfObject /\ call.config.plugins = Undefined) =>
    /\ Returned
    /\ ~Res.isValid
    /\ HasError("plugins")

\* No plugins, valid branches, strict and checkPlugins off: invalid all the
\* same, by the one error.
C6_Witness ==
  /\ OfObject
  /\ call.config.plugins = Undefined
  /\ call.config.branches = Main
  /\ call.options.t = "object" /\ ~Strict /\ ~Checked
  /\ ~Res.isValid
  /\ Len(Res.errors) = 1

(***************************************************************************)
(* C7: with checkPlugins on, a file rule of an update-version plugin that  *)
(* has both `pattern`+`replacement` and a `patterns` array, or neither,    *)
(* produces the shape error for that rule and isValid = false.             *)
(***************************************************************************)
C7_ExactlyOneShape ==
  (Returned /\ Checked) =>
    \A i \in 1..Len(Entries) : \A k \in 1..Len(RulesOf(i)) :
      LET rule == RulesOf(i)[k]
      IN ( /\ rule.t = "object"
           /\ HasPatterns(rule) <=> HasSimpleFormat(rule) )
         => /\ ~Res.isValid
            /\ \E e \in 1..Len(Res.errors) :
                 /\ HasAt(Res.errors[e], FileLabel(i, k), 1)
                 /\ Mentions(Res.errors[e],
                      "must have either \"patterns\" array or both \"pattern\" and \"replacement\" properties")

(***************************************************************************)
(* C8: a result with strict = true and at least one warning has            *)
(* isValid = false; a result with strict = false and no errors has         *)
(* isValid = true, whatever its warnings.                                  *)
(***************************************************************************)
C8_StrictWarnings ==
  Returned =>
    /\ (Strict /\ Len(Res.warnings) > 0) => ~Res.isValid
    /\ (~Strict /\ Len(Res.errors) = 0) => Res.isValid

\* Strict, a warning and no error: invalid by the warning alone.
C8_Witness ==
  /\ Returned
  /\ Strict
  /\ Len(Res.warnings) > 0
  /\ Len(Res.errors) = 0
  /\ ~Res.isValid

(***************************************************************************)
(* C9: validateConfig does not throw for a configuration object, whatever  *)
(* its branches, plugins, plugin entries and file rules: it returns a      *)
(* result.                                                                 *)
(***************************************************************************)
C9_NeverThrows == OfObject => Returned

(***************************************************************************)
(* C10: a call to validateConfig, dry-run included, leaves every file as   *)
(* it was and creates none.                                                *)
(***************************************************************************)
C10_DryRunReadOnly ==
  IsValidate =>
    /\ fs = call.before
    /\ \A p \in Paths : existsSync(fs, p) <=> existsSync(call.before, p)

\* A dry-run that found a replacement to make, and one whose target file is
\* missing, with the disk as before.
C10_Witness ==
  /\ Returned
  /\ \E m \in 1..Len(Res.suggestions) :
       /\ Mentions(Res.suggestions[m], "dry-run successful")
       /\ ~Mentions(Res.suggestions[m], "0")
  /\ HasError("target file not found")
  /\ fs = call.before

\* A file rule that validateConfig hands to the dry-run, with its target file
\* on disk.
DryRunnable(rule) ==
  /\ rule.t = "object"
  /\ rule.path.t = "string" /\ rule.path.s # <<>>
  /\ HasPatterns(rule) \/ HasSimpleFormat(rule)
  /\ existsSync(fs, rule.path.s)

\* A pattern the dry-run cannot test: no regex, an invalid pattern string, or a
\* replacement that is no string.
Broken(po) ==
  \/ RegexThrows(po.regex)
  \/ po.regex.t \notin {"string", "RegExp"}
  \/ po.replacement.t # "string"

\* The patterns of a rule that match the content and whose replacement, with
\* the test values substituted, changes it.
Changing(rule, content) ==
  {j \in 1..Len(PatternsOf(rule)) :
     LET po == PatternsOf(rule)[j]
     IN /\ ~Broken(po)
        /\ Matches(content, ToRegexObj(po.regex))
        /\ StringReplace(content, ToRegexObj(po.regex),
                         DryRunReplacement(po.replacement.s)) # content}

HasWarning(msg) == \E w \in 1..Len(Res.warnings) : Res.warnings[w] = msg
HasSuggestion(msg) == \E m \in 1..Len(Res.suggestions) : Res.suggestions[m] = msg
Successful(i, k, n) ==
  FileLabel(i, k) \o <<": ", "dry-run successful", " - ", N(n), " pattern(s) would match">>

(***************************************************************************)
(* C11 as stated: a file rule of which some pattern matches and changes    *)
(* the content gets the 'dry-run successful' suggestion, reporting the     *)
(* number of such patterns.                                                *)
(***************************************************************************)
C11_AsStated ==
  (Returned /\ Checked) =>
    \A i \in 1..Len(Entries) : \A k \in 1..Len(RulesOf(i)) :
      LET rule == RulesOf(i)[k]
      IN (DryRunnable(rule) /\ Changing(rule, fs[rule.path.s].data) # {})
         => HasSuggestion(Successful(i, k,
              Cardinality(Changing(rule, fs[rule.path.s].data))))

(***************************************************************************)
(* C11 amended: the dry-run's counter is the number of patterns of the     *)
(* rule that match the content and whose substituted replacement changes   *)
(* it; such a pattern gets no 'does not match' warning; and the 'dry-run   *)
(* successful' suggestion of the rule, reporting the counter, is there     *)
(* exactly when no pattern of the rule is broken, also when the counter    *)
(* is 0.                                                                   *)
(***************************************************************************)
C11_DryRunCounting ==
  (Returned /\ Checked) =>
    \A i \in 1..Len(Entries) : \A k \in 1..Len(RulesOf(i)) :
      LET rule == RulesOf(i)[k]
      IN DryRunnable(rule) =>
           LET changing == Changing(rule, fs[rule.path.s].data)
               pats == PatternsOf(rule)
           IN /\ validateUpdateVersionDryRun(rule, i, k, fs).replacements
                   = Cardinality(changing)
              /\ \A j \in changing :
                   ~HasWarning(PatternLabel(i, k, j)
                      \o <<": ", "regex pattern does not match any content in the file">>)
              /\ HasSuggestion(Successful(i, k, Cardinality(changing)))
                   <=> \A j \in 1..Len(pats) : ~Broken(pats[j])
              /\ \A n \in 0..Len(pats) :
                   HasSuggestion(Successful(i, k, n)) => n = Cardinality(changing)

\* A rule of two patterns that both change the content: the suggestion
\* reports 2.
C11_Witness ==
  /\ Returned /\ Checked
  /\ Len(Entries) = 1 /\ Len(RulesOf(1)) = 1
  /\ DryRunnable(RulesOf(1)[1])
  /\ Cardinality(Changing(RulesOf(1)[1], fs[RulesOf(1)[1].path.s].data)) = 2
  /\ HasSuggestion(Successful(1, 1, 2))

DoesNotMatch(i, k, j) ==
  PatternLabel(i, k, j) \o <<": ", "regex pattern does not match any content in the file">>

\* The patterns of a rule that the dry-run can test and that match nothing in
\* the content.
Unmatched(rule, content) ==
  {j \in 1..Len(PatternsOf(rule)) :
     /\ ~Broken(PatternsOf(rule)[j])
     /\ ~Matches(content, ToRegexObj(PatternsOf(rule)[j].regex))}

(***************************************************************************)
(* C12: a pattern of a file rule that matches nothing in the existing      *)
(* target file adds the 'does not match' warning and no error of the       *)
(* dry-run; without strict mode a result with such warnings and no error   *)
(* has isValid = true; live patch of a rule whose first pattern is well    *)
(* formed and matches nothing fails with 'Pattern did not match'.          *)
(***************************************************************************)
C12_NonMatchIsAdvisory ==
  (Returned /\ Checked) =>
    \A i \in 1..Len(Entries) : \A k \in 1..Len(RulesOf(i)) :
      LET rule == RulesOf(i)[k]
      IN DryRunnable(rule) =>
           \A j \in Unmatched(rule, fs[rule.path.s].data) :
             LET d == validateUpdateVersionDryRun(rule, i, k, fs)
                 live == updateFile(rule, <<"2">>, IsoString, [fs |-> fs, log |-> <<>>])
             IN /\ HasWarning(DoesNotMatch(i, k, j))
                /\ \A e \in 1..Len(d.errors) : ~HasAt(d.errors[e], PatternLabel(i, k, j), 1)
                /\ (~Strict /\ Len(Res.errors) = 0) => Res.isValid
                /\ (j = 1 /\ WellFormedPattern(PatternsOf(rule)[1]))
                     => /\ ~live.ok
                        /\ Mentions(live.err.message, "Pattern did not match any content in ")

\* One rule whose only pattern matches nothing: a warning, no error, valid
\* without strict mode, and live patch of the rule fails.
C12_Witness ==
  /\ Returned /\ Checked /\ ~Strict
  /\ Len(Entries) = 1 /\ Len(RulesOf(1)) = 1
  /\ DryRunnable(RulesOf(1)[1])
  /\ Unmatched(RulesOf(1)[1], fs[RulesOf(1)[1].path.s].data) = {1}
  /\ WellFormedPattern(PatternsOf(RulesOf(1)[1])[1])
  /\ HasWarning(DoesNotMatch(1, 1, 1))
  /\ Res.errors = <<>>
  /\ Res.isValid
  /\ ~updateFile(RulesOf(1)[1], <<"2">>, IsoString, [fs |-> fs, log |-> <<>>]).ok

\* A file rule that validateConfig hands to the dry-run, whether or not its
\* target file is on disk.
Tried(rule) ==
  /\ rule.t = "object"
  /\ rule.path.t = "string" /\ rule.path.s # <<>>
  /\ HasPatterns(rule) \/ HasSimpleFormat(rule)

HasErrorMsg(msg) == \E e \in 1..Len(Res.errors) : Res.errors[e] = msg
NotFound(i, k, path) ==
  FileLabel(i, k) \o <<": ", "target file not found", ": ", path[1]>>

\* Every error and warning of the dry-run of rule k of entry i is in the result.
Collected(i, k) ==
  LET d == validateUpdateVersionDryRun(RulesOf(i)[k], i, k, fs)
  IN /\ \A e \in 1..Len(d.errors) : HasErrorMsg(d.errors[e])
     /\ \A w \in 1..Len(d.warnings) : HasWarning(d.warnings[w])

(***************************************************************************)
(* C13: a file rule whose target file does not exist, or one of whose      *)
(* pattern strings is an invalid regular expression, adds an error and     *)
(* the result has isValid = false; the diagnostics of every file rule of   *)
(* every update-version plugin, before and after such a rule, are in the   *)
(* result.                                                                 *)
(***************************************************************************)
C13_HardFailuresContinue ==
  (Returned /\ Checked) =>
    \A i \in 1..Len(Entries) : \A k \in 1..Len(RulesOf(i)) :
      LET rule == RulesOf(i)[k]
      IN Tried(rule) =>
           /\ ~existsSync(fs, rule.path.s)
                => /\ HasErrorMsg(NotFound(i, k, rule.path.s))
                   /\ ~Res.isValid
           /\ existsSync(fs, rule.path.s)
                => \A j \in 1..Len(PatternsOf(rule)) :
                     RegexThrows(PatternsOf(rule)[j].regex)
                       => /\ \E e \in 1..Len(Res.errors) :
                               /\ HasAt(Res.errors[e], PatternLabel(i, k, j), 1)
                               /\ Mentions(Res.errors[e], "regex error")
                          /\ ~Res.isValid
           /\ Collected(i, k)

\* The only rule of the first plugin has no target file; the rule of the
\* second plugin still gets its own warning.
C13_Witness ==
  /\ Returned /\ Checked
  /\ Len(Entries) = 2 /\ Len(RulesOf(1)) = 1 /\ Len(RulesOf(2)) = 1
  /\ Tried(RulesOf(1)[1]) /\ ~existsSync(fs, RulesOf(1)[1].path.s)
  /\ HasErrorMsg(NotFound(1, 1, RulesOf(1)[1].path.s))
  /\ DryRunnable(RulesOf(2)[1])
  /\ HasWarning(DoesNotMatch(2, 1, 1))
  /\ ~Res.isValid

\* validProps, and the head of the error for the unknown property prop of
\* rule k of entry i.
ValidProps == {<<"path">>, <<"pattern">>, <<"replacement">>, <<"pattern", "s">>}
UnknownHead(i, k, prop) ==
  FileLabel(i, k) \o <<": ", "unknown property", " \"">> \o prop \o <<"\".">>
ErrorsAbout(i, k, prop) ==
  {e \in 1..Len(Res.errors) : HasAt(Res.errors[e], UnknownHead(i, k, prop), 1)}

\* The message lists name after "Did you mean: ".
Suggests(msg, name) ==
  \E p \in 1..Len(msg) :
    /\ msg[p] = " Did you mean: "
    /\ \E q \in (p + 1)..Len(msg) : HasAt(msg, name, q)

(***************************************************************************)
(* C14: every property of a file rule whose name is none of path,          *)
(* pattern, replacement, patterns has exactly one error in the result,     *)
(* the result is invalid, and the error suggests every valid name that     *)
(* the unknown name contains.                                              *)
(***************************************************************************)
C14_UnknownProperties ==
  (Returned /\ Checked) =>
    \A i \in 1..Len(Entries) : \A k \in 1..Len(RulesOf(i)) :
      LET rule == RulesOf(i)[k]
      IN rule.t = "object" =>
           \A u \in 1..Len(rule.unknown) :
             LET prop == rule.unknown[u]
             IN /\ prop \notin ValidProps
                /\ Cardinality(ErrorsAbout(i, k, prop)) = 1
                /\ ~Res.isValid
                /\ \A name \in ValidProps :
                     Includes(prop, name) =>
                       \A e \in ErrorsAbout(i, k, prop) :
                         Suggests(Res.errors[e], name)

\* A rule with the property 'pathss' got the error that suggests 'path'.
C14_Witness ==
  /\ Returned /\ Checked
  /\ \E i \in 1..Len(Entries) : \E k \in 1..Len(RulesOf(i)) :
       /\ RulesOf(i)[k].t = "object"
       /\ \E u \in 1..Len(RulesOf(i)[k].unknown) : RulesOf(i)[k].unknown[u] = Pathss
       /\ \E e \in ErrorsAbout(i, k, Pathss) : Suggests(Res.errors[e], <<"path">>)
       /\ ~Res.isValid

\* The brace tokens of a replacement text, and the warning of the dry-run
\* about them.
Placeholders == {"{version}", "{datetime}", "{date}"}
HasPlaceholder(text) == \E p \in 1..Len(text) : text[p] \in Placeholders
Unreplaced(i, k, j) ==
  PatternLabel(i, k, j) \o <<": ", "replacement still contains unreplaced placeholders">>

(***************************************************************************)
(* C15: a pattern that matches and changes the content, and whose          *)
(* replacement text still contains a placeholder token after the test      *)
(* values are substituted, gets the 'replacement still contains            *)
(* unreplaced placeholders' warning.                                       *)
(***************************************************************************)
C15_PlaceholderWarning ==
  (Returned /\ Checked) =>
    \A i \in 1..Len(Entries) : \A k \in 1..Len(RulesOf(i)) :
      LET rule == RulesOf(i)[k]
      IN DryRunnable(rule) =>
           \A j \in Changing(rule, fs[rule.path.s].data) :
             HasPlaceholder(DryRunReplacement(PatternsOf(rule)[j].replacement.s))
               => HasWarning(Unreplaced(i, k, j))

\* C15, the code: no call of validateConfig returns a warning about unreplaced
\* placeholders, whatever the replacement texts are.
C15_WarningNeverProduced ==
  Returned =>
    \A w \in 1..Len(Res.warnings) :
      ~Mentions(Res.warnings[w], "replacement still contains unreplaced placeholders")

(***************************************************************************)
(* Vocabulary of the command-line validator claims.                        *)
(***************************************************************************)
IsCli == call.op = "main"
Loaded == IsCli /\ call.module.exists /\ call.module.loads
\* What validateConfig gives for the loaded configuration.
Report == validateConfig(call.module.exports, CliOptions, call.before)

(***************************************************************************)
(* C16: the validator exits with code 0 exactly when the configuration     *)
(* file exists, loads, and validateConfig reports isValid = true; in       *)
(* every other case (file missing, loading throws, result invalid) it      *)
(* exits with code 1.  Warnings in a valid result leave the exit code 0.   *)
(***************************************************************************)
C16_ExitCode ==
  IsCli =>
    /\ Res.exit \in {0, 1}
    /\ Res.exit = 0 <=> (Loaded /\ ~Report.threw /\ Report.isValid)
    /\ ~call.module.exists => Res.exit = 1
    /\ (call.module.exists /\ ~call.module.loads) => Res.exit = 1
    /\ (Loaded /\ ~Report.threw /\ ~Report.isValid) => Res.exit = 1
    /\ (Loaded /\ ~Report.threw /\ Report.isValid /\ Report.warnings # <<>>)
         => Res.exit = 0

\* A valid configuration with a warning exits with 0.
C16_Witness ==
  /\ IsCli /\ Loaded
  /\ ~Report.threw /\ Report.isValid /\ Report.warnings # <<>>
  /\ Res.exit = 0

(***************************************************************************)
(* Vocabulary of the builder claims.                                       *)
(***************************************************************************)
IsBuild == call.op = "buildSemanticReleaseConfig"
NoOptions == IsBuild /\ call.options \in {Undefined, Null}
Given(name) == Prop(call.options, name)
OrElse(v, default) == IF v = Undefined THEN default ELSE v
\* The entries of the extraPrepare option; none when the option is not a list.
ExtraEntries == IF IsArray(Given("extraPrepare")) THEN Given("extraPrepare").items ELSE <<>>
Pipeline ==
  <<CommitAnalyzer, ReleaseNotes,
    Arr(<<Npm, [t |-> "object", npmPublish |-> OrElse(Given("npmPublish"), Boolean(FALSE))]>>),
    Changelog>>
  \o ExtraEntries
  \o <<Arr(<<Git, [t |-> "object",
                   assets |-> OrElse(Given("gitAssets"), DefaultGitAssets),
                   message |-> OrElse(Given("gitMessage"), DefaultGitMessage)]>>),
       GitHub>>
PipelineReturned ==
  /\ ~Res.threw
  /\ Res.config.plugins = Arr(Pipeline)
  /\ NoOptions =>
       /\ Res.config.branches = DefaultBranches
       /\ Res.config.plugins.items[3] = Arr(<<Npm, Options("npmPublish", Boolean(FALSE))>>)
       /\ Len(Res.config.plugins.items) = 6

IsDetect == call.op = "detectUserConfiguration"
PackageJson == call.project.packageJson
\* The scripts and development dependencies of the manifest; undefined when
\* there is no manifest to read.
ScriptNamed(s) == Prop(Prop(PackageJson.value, "scripts"), s)
Dependency(d) == Prop(Prop(PackageJson.value, "devDependencies"), d)
\* The outer try of the detection has not thrown.
Quiet ==
  \A w \in 1..Len(Res.warnings) :
    Res.warnings[w] # <<"Warning: Error detecting configuration">>

CiScript == \E s \in {"test:ci", "test:prod", "test:production"} : Truthy(ScriptNamed(s))
Placeholder(test) ==
  \/ test = NpmPlaceholder
  \/ test = Str(<<"exit 1">>)
  \/ test.t = "string" /\ Includes(test.s, <<"no test specified">>)
GenericTest == Truthy(ScriptNamed("test")) /\ ~Placeholder(ScriptNamed("test"))
FrameworkDependency ==
  \E d \in {"jest", "mocha", "vitest", "ava", "tap", "@testing-library/react",
            "@testing-library/vue", "cypress", "playwright"} : Truthy(Dependency(d))
FrameworkScript ==
  \E s \in {"jest", "mocha", "vitest", "ava", "tap", "nyc"} : Truthy(ScriptNamed(s))
RunnerScript == \E s \in {"jest", "mocha", "vitest"} : Truthy(ScriptNamed(s))

(***************************************************************************)
(* C18 as stated: runTests is true only if the manifest has a CI-specific  *)
(* test script, or a generic test script that is no placeholder together   *)
(* with a known test-framework dependency.                                 *)
(***************************************************************************)
C18_AsStated ==
  (IsDetect /\ Res.runTests) => (CiScript \/ (GenericTest /\ FrameworkDependency))

(***************************************************************************)
(* C18: runTests is true only if the manifest has a CI-specific test       *)
(* script, or a script named jest, mocha or vitest, or a generic test      *)
(* script that is no placeholder together with a known test-framework      *)
(* dependency or a script named after a test framework; and when the       *)
(* manifest is read without a failure, runTests is true in each of these   *)
(* cases.                                                                  *)
(***************************************************************************)
C18_Conservative ==
  IsDetect =>
    LET Configured ==
          \/ CiScript
          \/ RunnerScript
          \/ GenericTest /\ (FrameworkDependency \/ FrameworkScript)
    IN /\ Res.runTests => Configured
       /\ (Quiet /\ Configured) => Res.runTests

\* A generic test script with a framework dependency, and no other script,
\* has switched the tests on.
C18_Witness ==
  /\ IsDetect /\ Res.runTests
  /\ ~CiScript /\ ~FrameworkScript
  /\ GenericTest /\ FrameworkDependency

JestProject == ScriptNamed("test") = Jest /\ Truthy(Dependency("jest"))
PlaceholderProject == ScriptNamed("test") = NpmPlaceholder

ReleaseFiles == call.project.releaseConfigs
Parses(k) == ReleaseFiles[k].exists /\ ReleaseFiles[k].loads
FirstParsed ==
  IF \E k \in 1..Len(ReleaseFiles) : Parses(k)
  THEN SetMin({k \in 1..Len(ReleaseFiles) : Parses(k)}) ELSE 0
BranchList(k) == Prop(ReleaseFiles[k].value, "branches")
Named(entry) ==
  \/ entry.t = "string" /\ entry.s # <<>>
  \/ entry.t = "object" /\ Truthy(Prop(entry, "name"))
ProvidesBranches(k) ==
  /\ IsArray(BranchList(k))
  /\ \A b \in 1..Len(BranchList(k).items) : Named(BranchList(k).items[b])
NoBranches(k) == Falsy(ReleaseFiles[k].value) \/ Falsy(BranchList(k))
NamesOf(list) ==
  [b \in 1..Len(list) |-> IF list[b].t = "string" THEN list[b] ELSE list[b].name]
\* The branches of the claim for a project whose first parsed file holds a
\* branch list or none.
ExpectedBranches ==
  IF FirstParsed # 0 /\ ProvidesBranches(FirstParsed)
  THEN Arr(NamesOf(BranchList(FirstParsed).items))
  ELSE Arr(<<Str(<<"main">>)>>)
Decided == FirstParsed = 0 \/ ProvidesBranches(FirstParsed) \/ NoBranches(FirstParsed)

(***************************************************************************)
(* C20: the detected branches are the branch names of the branch list of   *)
(* the first release configuration file that exists and parses, and        *)
(* ['main'] when there is no such file or it has no branch list, whatever  *)
(* the state of package.json is.                                           *)
(***************************************************************************)
C20_BranchDetection ==
  (IsDetect /\ Decided) => Res.branches = ExpectedBranches

\* C20, the code: the same holds in the calls in which reading package.json
\* has not thrown.
C20_WhenManifestReads ==
  (IsDetect /\ Decided /\ Quiet) => Res.branches = ExpectedBranches

\* A third file provided the branches after a missing and a malformed one.
C20_ThirdFileTaken ==
  /\ IsDetect /\ Quiet
  /\ ~ReleaseFiles[1].exists /\ ReleaseFiles[2].exists /\ ~ReleaseFiles[2].loads
  /\ FirstParsed = 3 /\ ProvidesBranches(3) /\ ReleaseFiles[4].exists
  /\ Res.branches = Arr(<<Str(<<"b", "3">>)>>)

\* engines.node of the manifest, the characters of the range operators, and
\* a range of one bound: an operator followed by a bare version.
EnginesNode == Prop(Prop(PackageJson.value, "engines"), "node")
LtsAny == Str(<<"l", "t", "s", "/", "*">>)
OperatorChars == {">", "=", "<", "^", "~"}
Bare(version) ==
  /\ version # <<>>
  /\ \A c \in 1..Len(version) : IsDigit(version[c]) \/ version[c] = "."
RangeOperators == {<<">", "=">>, <<">">>, <<"<">>, <<"^">>, <<"~">>}
SingleBound(range, version) ==
  Bare(version) /\ \E op \in RangeOperators : range = op \o version
Suffixes(s) == {SubSeq(s, c, Len(s)) : c \in 1..Len(s)}

(***************************************************************************)
(* C21: when the manifest has engines.node, nodeVersion holds none of the  *)
(* range operator characters, and for a range of one bound it is the bare  *)
(* version; without engines.node it is 'lts/*'.                            *)
(***************************************************************************)
C21_NodeVersion ==
  (IsDetect /\ Quiet /\ PackageJson.exists) =>
    IF Truthy(EnginesNode)
    THEN /\ \A c \in 1..Len(Res.nodeVersion.s) : Res.nodeVersion.s[c] \notin OperatorChars
         /\ \A version \in Suffixes(EnginesNode.s) :
              SingleBound(EnginesNode.s, version) => Res.nodeVersion = Str(version)
    ELSE Res.nodeVersion = LtsAny

\* C21, the code: the same holds for the ranges written with '>=', '^' or
\* '~', and a value with none of these is returned as it is.
C21_CommonPatterns ==
  (IsDetect /\ Quiet /\ PackageJson.exists) =>
    IF Truthy(EnginesNode)
    THEN IF \E op \in {<<">", "=">>, <<"^">>, <<"~">>} : Includes(EnginesNode.s, op)
         THEN /\ \A c \in 1..Len(Res.nodeVersion.s) :
                   Res.nodeVersion.s[c] \notin OperatorChars
              /\ \A version \in Suffixes(EnginesNode.s) :
                   SingleBound(EnginesNode.s, version) => Res.nodeVersion = Str(version)
         ELSE Res.nodeVersion = EnginesNode
    ELSE Res.nodeVersion = LtsAny

\* '>=18.0.0' has been detected as '18.0.0'.
C21_BareVersion ==
  /\ IsDetect /\ Quiet
  /\ EnginesNode = Str(<<">", "=", "1", "8", ".", "0", ".", "0">>)
  /\ Res.nodeVersion = Str(<<"1", "8", ".", "0", ".", "0">>)

\* Nothing of the manifest could be read; no release configuration file gave
\* a branch list.
NoManifest == ~PackageJson.exists \/ ~PackageJson.loads
NoBranchList ==
  \A k \in 1..Len(ReleaseFiles) :
    \/ ~Parses(k)
    \/ NoBranches(k)
    \/ ~IsArray(BranchList(k))
    \/ \E b \in 1..Len(BranchList(k).items) : BranchList(k).items[b] = Null
ManifestDefaults ==
  /\ Res.nodeVersion = LtsAny
  /\ ~Res.runTests
  /\ Res.testCommand = Null
  /\ Res.buildCommand = Null
  /\ Res.additionalScripts = <<>>
MainOnly == Arr(<<Str(<<"main">>)>>)

(***************************************************************************)
(* C22: detectUserConfiguration never throws: in every project state it    *)
(* returns a configuration, in which the fields it could not detect are    *)
(* at their defaults: those of the manifest when package.json is missing   *)
(* or malformed, nodeVersion without engines.node, the test, build and     *)
(* additional scripts without scripts, branches when no release            *)
(* configuration file gave a branch list or reading the project failed.    *)
(***************************************************************************)
C22_NeverThrows ==
  IsDetect =>
    /\ ~Res.threw
    /\ NoManifest => ManifestDefaults
    /\ Falsy(EnginesNode) => Res.nodeVersion = LtsAny
    /\ Falsy(Prop(PackageJson.value, "scripts"))
         => (~Res.runTests /\ Res.testCommand = Null /\ Res.buildCommand = Null
             /\ Res.additionalScripts = <<>>)
    /\ (NoBranchList \/ ~Quiet) => Res.branches = MainOnly

\* With a malformed package.json, and with a release configuration file
\* that throws null, the call has returned the defaults.
C22_Witness ==
  /\ IsDetect /\ ~Res.threw /\ ~Quiet
  /\ \/ PackageJson.exists /\ ~PackageJson.loads
     \/ ReleaseFiles[1] = ThrowsNull
  /\ ManifestDefaults /\ Res.branches = MainOnly

(***************************************************************************)
(* Vocabulary of the workflow claims.                                      *)
(***************************************************************************)
IsGitHubWorkflow == call.op = "createGitHubWorkflow"
IsSmartWorkflow == call.op = "createSmartWorkflow"
IsWorkflow == IsGitHubWorkflow \/ IsSmartWorkflow
WorkflowReturned == IsWorkflow /\ ~Res.threw
\* what the caller passed under a name, undefined when nothing
Passed(prop) == Prop(call.options, prop)
\* the call detects the project's configuration
Detects == IsSmartWorkflow \/ (IsGitHubWorkflow /\ Passed("autoDetect") # Boolean(FALSE))
DetectedHere == detectUserConfiguration(call.project)
\* the names of the steps of a workflow text, in their order
StepNames(text) ==
  LET headers == SelectSeq(text, LAMBDA l : l # <<>> /\ l[1] = "      - name: ")
  IN [k \in 1..Len(headers) |-> Tail(headers[k])]
\* the run command of the step of a given name, <<"none">> when it has none
RunOf(text, name) ==
  IF \E k \in 1..(Len(text) - 1) :
       text[k] = <<"      - name: ">> \o name /\ text[k + 1] # <<>>
         /\ text[k + 1][1] = "        run: "
  THEN Tail(text[(CHOOSE k \in 1..(Len(text) - 1) :
                    text[k] = <<"      - name: ">> \o name /\ text[k + 1] # <<>>
                      /\ text[k + 1][1] = "        run: ") + 1])
  ELSE <<"none">>
BuildCommandSet ==
  IF Passed("buildCommand") # Undefined THEN Truthy(Passed("buildCommand"))
  ELSE Detects /\ Truthy(DetectedHere.buildCommand)
RunTestsSet ==
  IF Passed("runTests") # Undefined THEN Truthy(Passed("runTests"))
  ELSE Detects /\ DetectedHere.runTests
CustomName(step) == IF step.t = "string" THEN step.s ELSE Template(Prop(step, "name"))
CustomNames ==
  IF IsArray(Passed("additionalSteps"))
  THEN [k \in 1..Len(Passed("additionalSteps").items) |->
          CustomName(Passed("additionalSteps").items[k])]
  ELSE <<>>

\* C23: in the text returned by createGitHubWorkflow the steps are, in this
\* order, Checkout, Setup Node.js, Install dependencies, Build (exactly when
\* a build command is set), Run tests (exactly when runTests is true), the
\* custom steps in the given order, and Release as the last step.
C23_StepOrder ==
  (IsGitHubWorkflow /\ ~Res.threw)
    => StepNames(Res.text)
         = <<<<"Checkout">>, <<"Setup Node.js">>, <<"Install dependencies">>>>
           \o (IF BuildCommandSet THEN <<<<"Build">>>> ELSE <<>>)
           \o (IF RunTestsSet THEN <<<<"Run tests">>>> ELSE <<>>)
           \o CustomNames
           \o <<<<"Release">>>>

\* Witness of C23: a workflow returned with a build command, tests and two
\* custom steps, eight steps in all.
C23_Witness ==
  /\ IsGitHubWorkflow /\ ~Res.threw
  /\ BuildCommandSet /\ RunTestsSet /\ Len(CustomNames) = 2
  /\ Len(StepNames(Res.text)) = 8

\* Witness of C23 without the optional steps: neither Build nor Run tests.
C23_Minimal ==
  /\ IsGitHubWorkflow /\ ~Res.threw
  /\ ~BuildCommandSet /\ ~RunTestsSet
  /\ Len(StepNames(Res.text)) = 4

\* the test command the Run tests step is meant to run: the caller's, else
\* the detected one, else 'npm test'
TestCommandGiven == Truthy(Passed("testCommand"))
ExpectedTestCommand ==
  IF TestCommandGiven THEN Template(Passed("testCommand"))
  ELSE IF Detects /\ Truthy(DetectedHere.testCommand)
  THEN Template(DetectedHere.testCommand)
  ELSE <<"npm test">>

\* C24: whenever the workflow returned by createGitHubWorkflow or
\* createSmartWorkflow has the Run tests step, the step runs the caller's
\* testCommand if given, else the detected test command, else 'npm test';
\* never null and never nothing.
C24_TestCommand ==
  (WorkflowReturned /\ RunTestsSet)
    => RunOf(Res.text, <<"Run tests">>) = ExpectedTestCommand

\* C24 where it holds: createGitHubWorkflow called without testCommand, or
\* with a non-empty one.
C24_GitHubWorkflow ==
  (IsGitHubWorkflow /\ ~Res.threw /\ RunTestsSet
     /\ (TestCommandGiven \/ Passed("testCommand") = Undefined))
    => RunOf(Res.text, <<"Run tests">>) = ExpectedTestCommand

\* C24 where it holds for createSmartWorkflow: tests were detected, or the
\* caller gives a non-empty testCommand.
C24_SmartWorkflow ==
  (IsSmartWorkflow /\ ~Res.threw /\ RunTestsSet
     /\ (TestCommandGiven
           \/ (Passed("testCommand") = Undefined /\ Truthy(DetectedHere.testCommand))))
    => RunOf(Res.text, <<"Run tests">>) = ExpectedTestCommand

\* The case of C24 that fails: createSmartWorkflow({ runTests: true }) in a
\* project without detected tests returns a Run tests step running 'null'.
C24_ForcedTests ==
  /\ IsSmartWorkflow /\ ~Res.threw
  /\ Passed("runTests") = Boolean(TRUE) /\ Passed("testCommand") = Undefined
  /\ ~DetectedHere.runTests
  /\ RunOf(Res.text, <<"Run tests">>) = <<"null">>

(***************************************************************************)
(* Vocabulary of the claims that compare the two rule shapes and the two   *)
(* ways of running a rule.                                                 *)
(***************************************************************************)
\* the advanced rule { path, patterns: [{ regex: pattern, replacement }] }
\* of a simple rule { path, pattern, replacement }
Advanced(rule) ==
  [rule EXCEPT !.patterns = Arr(<<Obj(rule.pattern, rule.replacement)>>),
               !.pattern = Undefined, !.replacement = Undefined]
SimpleRule(rule) ==
  rule.t = "object" /\ rule.patterns = Undefined /\ HasSimpleFormat(rule)
\* the validated configuration has one update-version entry of one rule
OneRule == OfObject /\ Checked /\ Len(Entries) = 1 /\ Len(RulesOf(1)) = 1
TheRule == RulesOf(1)[1]
\* the validated configuration with the rule of its update-version entry
\* replaced
WithRule(rule) ==
  [call.config EXCEPT !.plugins =
     Arr([k \in 1..Len(call.config.plugins.items) |->
            IF IsUpdateVersionPlugin(call.config.plugins.items[k])
            THEN UpdateVersion(Arr(<<rule>>))
            ELSE call.config.plugins.items[k]])]
Datetimes == {IsoString, UnixString}
\* live patch of a rule on the disk the call found
Live(rule, version, datetime) ==
  updateFile(rule, version, datetime, [fs |-> call.before, log |-> <<>>])

C25_Failing ==
  /\ OneRule /\ SimpleRule(TheRule) /\ Returned
  /\ ~Res.isValid
  /\ existsSync(call.before, <<"f1">>)
  /\ ~Live(TheRule, <<"2">>, IsoString).ok

\* a summary was produced: the result has the summary of a configuration
\* object, not the empty one of the early returns
HasSummary == Returned /\ "hasValidStructure" \in DOMAIN Res.summary

\* C26: in every result returned by validateConfig, isValid is true exactly
\* when errors is empty and not (strict and warnings non-empty); and when a
\* summary is produced, summary.hasValidStructure is true exactly when
\* errors is empty.
C26_ResultConsistent ==
  Returned
    => /\ Res.isValid <=> (Res.errors = <<>> /\ ~(Strict /\ Res.warnings # <<>>))
       /\ HasSummary => (Res.summary.hasValidStructure <=> Res.errors = <<>>)

\* Witness of C26: a strict validation without errors that is invalid for
\* its warnings alone, its summary reporting a valid structure.
C26_Witness ==
  /\ HasSummary /\ Strict
  /\ Res.errors = <<>> /\ Res.warnings # <<>>
  /\ ~Res.isValid /\ Res.summary.hasValidStructure

\* Witness of C26 with errors: a result with errors from the dry-run of a
\* file rule and from the structure, invalid, with a summary.
C26_WithErrors ==
  /\ HasSummary /\ ~Strict
  /\ Len(Res.errors) >= 2 /\ ~Res.isValid /\ ~Res.summary.hasValidStructure

\* Witness of C26 without a summary: the early return for a configuration
\* that is no object.
C26_NoSummary == Returned /\ ~HasSummary /\ ~Res.isValid /\ Res.errors # <<>>

(***************************************************************************)
(* Vocabulary of the claims about when live patch fails.                   *)
(***************************************************************************)
\* The rule at which prepare rejected with 'Pattern did not match', and the
\* text of its file when prepare reached it.
DidNotMatch ==
  /\ HasFiles /\ Res.status = "rejected" /\ Res.at > 0
  /\ Res.err.name = "Error"
  /\ Mentions(Res.err.message, "Pattern did not match any content in ")
FailedRule == Files[Res.at]
FoundText == DiskAt(Res.at)[FailedRule.path.s].data
\* The pattern at which the loop over the patterns of a rule stops: the
\* first that leaves the text in memory as it was.
FailedPattern(pats, content, version, datetime) ==
  CHOOSE j \in 1..Len(pats) :
    /\ InMemory(pats, j, content, version, datetime)
         = InMemory(pats, j - 1, content, version, datetime)
    /\ \A i \in 1..(j - 1) :
         InMemory(pats, i, content, version, datetime)
           # InMemory(pats, i - 1, content, version, datetime)
\* prepare run again with the same configuration and version on the disk
\* the call left
SecondRun == prepare(call.pluginConfig, call.version, fs)
\* every pattern of every rule has a match in the text the second run
\* applies it to
StillMatches ==
  \A k \in 1..Len(Files) :
    LET again == DiskAfter(Files, k - 1, call.version, Res.datetime, fs)
    IN /\ Applicable(Files[k], again)
       /\ ~Misses(PatternsOf(Files[k]), again[Files[k].path.s].data,
                  call.version, Res.datetime)

\* C27: live patch fails with 'Pattern did not match any content' for a
\* pattern only when the regex has no match in the current content; so
\* prepare run a second time with the same version on files it has already
\* updated, every pattern still matching, succeeds and leaves the files as
\* they are.
C27_OnlyWithoutMatch ==
  /\ DidNotMatch
       => LET pats == PatternsOf(FailedRule)
              j == FailedPattern(pats, FoundText, call.version, Res.datetime)
          IN ~Matches(InMemory(pats, j - 1, FoundText, call.version, Res.datetime),
                      ToRegexObj(pats[j].regex))
  /\ (HasFiles /\ Res.status = "resolved" /\ Files # <<>> /\ StillMatches)
       => (SecondRun.status = "resolved" /\ SecondRun.fs = fs)

\* What live patch does: 'Pattern did not match' is raised exactly for the
\* first pattern whose replacement leaves the text in memory unchanged,
\* with or without a match.
C27_WhenUnchanged ==
  HasFiles =>
    \A k \in 1..Len(Files) :
      (Reaches(k) /\ Applicable(Files[k], DiskAt(k)))
        => LET pats == PatternsOf(Files[k])
               c == DiskAt(k)[Files[k].path.s].data
           IN (DidNotMatch /\ Res.at = k)
                <=> \E j \in 1..Len(pats) :
                      InMemory(pats, j, c, call.version, Res.datetime)
                        = InMemory(pats, j - 1, c, call.version, Res.datetime)

\* The case of C27 that fails: prepare has updated a file, every pattern
\* still matches the updated text, and the second run with the same version
\* rejects with 'Pattern did not match'.
C27_SecondRunFails ==
  /\ HasFiles /\ Res.status = "resolved" /\ Len(Files) = 1 /\ StillMatches
  /\ fs # call.before
  /\ SecondRun.status = "rejected"
  /\ Mentions(SecondRun.err.message, "Pattern did not match any content in ")
  /\ SecondRun.fs = fs

\* live patch of the one rule fails, at pattern i
LiveFailsAt(i, version) ==
  /\ ~Live(TheRule, version, IsoString).ok
  /\ FailedPattern(PatternsOf(TheRule), call.before[TheRule.path.s].data, version,
                   IsoString) = i
\* the dry-run reports every pattern of the one rule as a successful
\* replacement: no warning, and as many replacements as patterns
AllSuccessful ==
  /\ Res.warnings = <<>> /\ Res.errors = <<>>
  /\ HasSuggestion(Successful(1, 1, Len(PatternsOf(TheRule))))

\* C28: for every file content and list of patterns of one rule, the
\* dry-run reports pattern i as 'does not match' exactly when live patch of
\* the rule on the same content fails at pattern i; and when the dry-run
\* reports every pattern as a successful replacement, live patch succeeds.
C28_DryRunAgrees ==
  (OneRule /\ Returned /\ Applicable(TheRule, call.before))
    => \A version \in Versions :
         /\ \A i \in 1..Len(PatternsOf(TheRule)) :
              HasWarning(DoesNotMatch(1, 1, i)) <=> LiveFailsAt(i, version)
         /\ AllSuccessful => Live(TheRule, version, IsoString).ok

\* What holds of C28: a 'does not match' warning for the first pattern, the
\* one both runs apply to the same text, means live patch fails at it; and
\* a rule of one pattern reported successful is patched by the release of
\* the dry-run's test version.
C28_FirstPattern ==
  (OneRule /\ Returned /\ Applicable(TheRule, call.before))
    => /\ HasWarning(DoesNotMatch(1, 1, 1))
            => \A version \in Versions : LiveFailsAt(1, version)
       /\ (AllSuccessful /\ Len(PatternsOf(TheRule)) = 1)
            => updateFile(TheRule, TestVersion, TestDatetime,
                          [fs |-> call.before, log |-> <<>>]).ok

\* The case of C28 that fails: the dry-run reports both patterns as
\* successful replacements, each tested against the content of the file,
\* and live patch fails at the second, applied to the text the first left.
C28_SequentialFails ==
  /\ OneRule /\ Returned /\ Applicable(TheRule, call.before)
  /\ Len(PatternsOf(TheRule)) = 2 /\ AllSuccessful
  /\ LiveFailsAt(2, <<"2">>)
  /\ ~HasWarning(DoesNotMatch(1, 1, 2))

(***************************************************************************)
(* Vocabulary of the detector's output invariant.                          *)
(***************************************************************************)
\* the test commands in their priority order, and what in the manifest
\* makes the command at position k a candidate
TestCommands ==
  <<"npm run test:ci", "npm run test:prod", "npm run test:production", "npm test",
    "npm run jest", "npm run mocha", "npm run vitest">>
Candidate(k) ==
  IF k = 1 THEN Truthy(ScriptNamed("test:ci"))
  ELSE IF k = 2 THEN Truthy(ScriptNamed("test:prod"))
  ELSE IF k = 3 THEN Truthy(ScriptNamed("test:production"))
  ELSE IF k = 4 THEN GenericTest /\ (FrameworkDependency \/ FrameworkScript)
  ELSE IF k = 5 THEN Truthy(ScriptNamed("jest"))
  ELSE IF k = 6 THEN Truthy(ScriptNamed("mocha"))
  ELSE Truthy(ScriptNamed("vitest"))

\* C29: in every object returned by detectUserConfiguration, runTests is
\* true exactly when testCommand is non-null, and a testCommand that is set
\* is one of 'npm run test:ci', 'npm run test:prod', 'npm run
\* test:production', 'npm test', 'npm run jest', 'npm run mocha', 'npm run
\* vitest': the first of them, in this order, that the manifest provides.
C29_DetectorOutput ==
  (IsDetect /\ ~Res.threw)
    => /\ Res.runTests <=> Res.testCommand # Null
       /\ Res.testCommand # Null
            => \E k \in 1..Len(TestCommands) :
                 /\ Res.testCommand = Str(<<TestCommands[k]>>)
                 /\ Candidate(k)
                 /\ \A j \in 1..(k - 1) : ~Candidate(j)

\* Witness of C29: a manifest with a test:prod script and a jest script,
\* and no test:ci script; the tests run with 'npm run test:prod'.
C29_Witness ==
  /\ IsDetect /\ ~Res.threw
  /\ ~Candidate(1) /\ Candidate(2) /\ Candidate(5)
  /\ Res.runTests /\ Res.testCommand = Str(<<"npm run test:prod">>)

\* Witness of C29 without tests: a manifest that is read and provides none
\* of the commands.
C29_NoTests ==
  /\ IsDetect /\ ~Res.threw /\ PackageJson.loads
  /\ \A k \in 1..Len(TestCommands) : ~Candidate(k)
  /\ ~Res.runTests /\ Res.testCommand = Null

(***************************************************************************)
(* Vocabulary of the builder / validator round trip.                       *)
(***************************************************************************)
\* options as documented: branches omitted, a non-empty array or a string;
\* extraPrepare omitted or a list without update-version plugins
DocumentedOptions ==
  /\ IsBuild
  /\ \/ Given("branches") = Undefined
     \/ IsArray(Given("branches")) /\ Given("branches").items # <<>>
     \/ Given("branches").t = "string"
  /\ Given("extraPrepare") = Undefined \/ IsArray(Given("extraPrepare"))
  /\ \A k \in 1..Len(ExtraEntries) :
       ExtraEntries[k] # UpdateVersionJs /\ ~IsUpdateVersionPlugin(ExtraEntries[k])
\* validateConfig accepts the configuration the builder returned, without
\* errors or warnings
Accepted(options) ==
  LET Clean(r) == ~r.threw /\ r.isValid /\ r.errors = <<>> /\ r.warnings = <<>>
  IN Clean(validateConfig(Res.config, options, fs))

\* C30: the configuration buildSemanticReleaseConfig returns for documented
\* options (branches omitted, a non-empty array or a string; any
\* npmPublish, gitAssets, gitMessage; extraPrepare without update-version
\* plugins) is accepted by validateConfig with isValid = true, no errors and
\* no warnings, also in strict mode.
C30_RoundTrip ==
  DocumentedOptions
    => /\ ~Res.threw
       /\ \A options \in ValidateOptions : Accepted(options)

\* C30 where it holds: branches omitted or given as a non-empty array.
C30_ArrayBranches ==
  (DocumentedOptions /\ Given("branches").t # "string")
    => /\ ~Res.threw
       /\ \A options \in ValidateOptions : Accepted(options)

\* The case of C30 that fails: branches given as the string 'main' is
\* returned as that string, and validateConfig answers 'Branches must be an
\* array'.
C30_StringBranches ==
  /\ DocumentedOptions /\ Given("branches") = Str(<<"main">>)
  /\ ~Res.threw /\ Res.config.branches = Str(<<"main">>)
  /\ LET Rejected(r) ==
           ~r.threw /\ ~r.isValid /\ r.errors = <<<<"Branches", " must be an array">>>>
     IN Rejected(validateConfig(Res.config, Undefined, fs))

====
